---- MODULE Spec2Model ----
(***************************************************************************)
(* just-getopt: the command-line parser parser::parse and the parts of     *)
(* OptSpecs / Args it reads and writes.                                    *)
(*                                                                         *)
(* A string is a sequence of characters, each character a one-character    *)
(* TLA+ string, so that the lexical helpers of parser.rs (prefix tests,    *)
(* splitting at '=', the character iterator of a short-option series) are  *)
(* computed character by character as the code computes them.              *)
(* An Option<T> is a sequence of length at most one: None is << >> and     *)
(* Some(v) is <<v>>.                                                       *)
(*                                                                         *)
(* parser.rs reads one limit, through OptSpecs::is_under_limit, and knows  *)
(* three value types. lib.rs declares three collection limits              *)
(* (option_limit, other_limit, unknown_limit) and two more value types     *)
(* (OptionalNonEmpty, RequiredNonEmpty); the code of parse that reads them *)
(* is not in the sources, so what parse does with them (collect_option,    *)
(* collect_other, collect_unknown, non_empty, limits_saturated) follows    *)
(* the specification. With the limits at COUNTER_LIMIT and the plain value *)
(* types these are the pushes of parser.rs.                                *)
(***************************************************************************)
EXTENDS Integers, Sequences, FiniteSets, TLC

VARIABLES specs, args, pc, iter, args_count, opt, char_iter, parsed

vars == <<specs, args, pc, iter, args_count, opt, char_iter, parsed>>

(***************************************************************************)
(* Bounds of the model.                                                    *)
(***************************************************************************)
\* Longest command line drawn in Init.
MaxLen == 3

\* The finite argument limit drawn in Init besides the unbounded default.
SmallLimit == 2

\* Most declarations a registry under construction receives.
MaxDeclared == 2

(***************************************************************************)
(* Option<T>                                                               *)
(***************************************************************************)
None == << >>

Some(v) == <<v>>

is_some(o) == Len(o) > 0

unwrap(o) == o[1]

(***************************************************************************)
(* str helpers of the standard library used by parser.rs                   *)
(***************************************************************************)
\* str::starts_with
starts_with(s, p) == Len(s) >= Len(p) /\ SubSeq(s, 1, Len(p)) = p

\* str::contains(char)
contains_char(s, c) == \E i \in 1..Len(s) : s[i] = c

\* Vec::contains
contains(v, e) == \E i \in 1..Len(v) : v[i] = e

\* Index of the first c in s, 0 when there is none.
find_char(s, c) ==
    IF contains_char(s, c)
    THEN CHOOSE i \in 1..Len(s) : s[i] = c /\ \A j \in 1..(i - 1) : s[j] # c
    ELSE 0

\* s.split(c).next(): the part of s before the first c (all of s without c).
split_first(s, c) ==
    IF find_char(s, c) = 0 THEN s ELSE SubSeq(s, 1, find_char(s, c) - 1)

\* s.split_once(c): None, or Some of the parts before and after the first c.
split_once(s, c) ==
    IF find_char(s, c) = 0
    THEN None
    ELSE Some(<<SubSeq(s, 1, find_char(s, c) - 1),
                SubSeq(s, find_char(s, c) + 1, Len(s))>>)

(***************************************************************************)
(* parser.rs: constants and lexical helpers                                *)
(***************************************************************************)
OPTION_TERMINATOR == <<"-", "-">>

LONG_OPTION_PREFIX == <<"-", "-">>

SHORT_OPTION_PREFIX == <<"-">>

INVALID_SHORT_OPTION_CHARS == <<" ", "-">>

INVALID_LONG_OPTION_CHARS == <<" ", "=">>

\* The value of a call that panics.
Panic == "panic"

is_option_terminator(s) == s = OPTION_TERMINATOR

\* A long-option test that accepts any third character.
is_long_option_prefix_any_third(s) ==
    IF ~starts_with(s, LONG_OPTION_PREFIX)
    THEN FALSE
    ELSE Len(s) > Len(LONG_OPTION_PREFIX)

is_long_option_prefix(s) ==
    IF ~starts_with(s, LONG_OPTION_PREFIX)
    THEN FALSE
    ELSE IF Len(s) > Len(LONG_OPTION_PREFIX)
         THEN s[Len(LONG_OPTION_PREFIX) + 1] # "-"
         ELSE FALSE

get_long_option(s) ==
    IF ~is_long_option_prefix(s)
    THEN Panic
    ELSE SubSeq(s, Len(LONG_OPTION_PREFIX) + 1, Len(s))

get_long_option_name(s) == split_first(get_long_option(s), "=")

is_long_option_equal_sign(s) ==
    LET option == get_long_option(s)
    IN  IF Len(option) < 2
        THEN Panic
        ELSE \E i \in 3..Len(option) : option[i] = "="

get_long_option_equal_value(s) ==
    LET v == split_once(get_long_option(s), "=")
    IN  IF v = None THEN << >> ELSE unwrap(v)[2]

\* A validity test that accepts names shorter than two characters.
is_valid_long_option_name_any_length(s) ==
    IF starts_with(s, <<"-">>)
    THEN FALSE
    ELSE \A i \in 1..Len(INVALID_LONG_OPTION_CHARS) :
            ~contains_char(s, INVALID_LONG_OPTION_CHARS[i])

is_valid_long_option_name(s) ==
    IF starts_with(s, <<"-">>) \/ Len(s) < 2
    THEN FALSE
    ELSE \A i \in 1..Len(INVALID_LONG_OPTION_CHARS) :
            ~contains_char(s, INVALID_LONG_OPTION_CHARS[i])

is_valid_short_option_name(s) ==
    IF Len(s) # 1
    THEN FALSE
    ELSE \A i \in 1..Len(INVALID_SHORT_OPTION_CHARS) :
            ~contains_char(s, INVALID_SHORT_OPTION_CHARS[i])

is_short_option_prefix(s) ==
    IF ~starts_with(s, SHORT_OPTION_PREFIX)
    THEN FALSE
    ELSE IF Len(s) < 1 + Len(SHORT_OPTION_PREFIX)
         THEN FALSE
         ELSE is_valid_short_option_name(<<s[Len(SHORT_OPTION_PREFIX) + 1]>>)

get_short_option_series(s) == SubSeq(s, Len(SHORT_OPTION_PREFIX) + 1, Len(s))

(***************************************************************************)
(* lib.rs: OptSpecs and its lookups                                        *)
(***************************************************************************)
\* u32::MAX in the source: the unbounded default of a limit. The model
\* holds the largest integer of the checker instead; no count of a bounded
\* command line reaches either.
COUNTER_LIMIT == 2147483647

\* struct OptSpec
OptSpec(id, name, value_type) ==
    [id |-> id, name |-> name, value_type |-> value_type]

\* OptSpecs::is_flag
is_flag(sp, flag) == contains(sp.flags, flag)

\* OptSpecs::is_under_limit, read by parse before every iter.next()
is_under_limit(sp, count) == count < sp.arg_limit

\* The value types that require a value, and those for which the empty
\* string is no value.
RequiredTypes == {"Required", "RequiredNonEmpty"}

OptionalTypes == {"Optional", "OptionalNonEmpty"}

NonEmptyTypes == {"OptionalNonEmpty", "RequiredNonEmpty"}

\* Iterator::find over a Vec: the first element with the name, or None.
find_name(options, name) ==
    IF \E i \in 1..Len(options) : options[i].name = name
    THEN Some(options[CHOOSE i \in 1..Len(options) :
                        /\ options[i].name = name
                        /\ \A j \in 1..(i - 1) : options[j].name # name])
    ELSE None

get_short_option_match(sp, name) ==
    IF Len(name) # 1 THEN None ELSE find_name(sp.options, name)

get_long_option_match(sp, name) ==
    IF Len(name) < 2 THEN None ELSE find_name(sp.options, name)

\* The declared long options whose name starts with the given name, in
\* declaration order; None when there is none.
get_long_option_prefix_matches(sp, name) ==
    IF Len(name) < 2
    THEN None
    ELSE LET is_match(e) == starts_with(e.name, name)
             vec == SelectSeq(sp.options, is_match)
         IN  IF Len(vec) = 0 THEN None ELSE Some(vec)

\* The loop of get_long_option_prefix_match from the i-th declared option,
\* with the match found so far.
RECURSIVE prefix_match_from(_, _, _, _)
prefix_match_from(options, name, i, result) ==
    IF i > Len(options)
    THEN result
    ELSE IF starts_with(options[i].name, name)
         THEN IF result = None
              THEN prefix_match_from(options, name, i + 1, Some(options[i]))
              ELSE None
         ELSE prefix_match_from(options, name, i + 1, result)

\* OptSpecs::get_long_option_prefix_match: the only declared option whose
\* name starts with the given name, None when there is none or several.
get_long_option_prefix_match(sp, name) ==
    IF Len(name) < 2
    THEN None
    ELSE prefix_match_from(sp.options, name, 1, None)

(***************************************************************************)
(* lib.rs: Args and Opt                                                    *)
(***************************************************************************)
\* Args::new
Args_new ==
    [options |-> << >>, other |-> << >>, unknown |-> << >>,
     arg_limit_exceeded |-> FALSE]

\* struct Opt
Opt(id, name, value_required, value) ==
    [id |-> id, name |-> name, value_required |-> value_required,
     value |-> value]

\* A report that also counts a required value that is the empty string.
required_value_missing_or_empty(p) ==
    LET missing(o) ==
            o.value_required /\ (~is_some(o.value) \/ o.value = Some(<< >>))
    IN  SelectSeq(p.options, missing)

\* Args::required_value_missing, collected
required_value_missing(p) ==
    LET missing(o) == o.value_required /\ ~is_some(o.value)
    IN  SelectSeq(p.options, missing)

\* Args::option_exists
option_exists(p, id) == \E i \in 1..Len(p.options) : p.options[i].id = id

\* Args::options_all, collected
options_all(p, id) ==
    LET same(o) == o.id = id IN SelectSeq(p.options, same)

\* The closures of the searches below: |opt| opt.id == id, and
\* |opt| opt.id == id && opt.value.is_some() when valued is TRUE.
wanted(o, id, valued) == o.id = id /\ (valued => is_some(o.value))

\* Iterator::find over v from the index i on: the first element the
\* closure accepts, as an Option.
RECURSIVE find(_, _, _, _)
find(v, i, id, valued) ==
    IF i > Len(v) THEN None
    ELSE IF wanted(v[i], id, valued) THEN Some(v[i])
    ELSE find(v, i + 1, id, valued)

\* Iterator::rev().find over v from the index i down.
RECURSIVE rfind(_, _, _, _)
rfind(v, i, id, valued) ==
    IF i < 1 THEN None
    ELSE IF wanted(v[i], id, valued) THEN Some(v[i])
    ELSE rfind(v, i - 1, id, valued)

\* Args::options_first
options_first(p, id) == find(p.options, 1, id, FALSE)

\* Args::options_last
options_last(p, id) == rfind(p.options, Len(p.options), id, FALSE)

\* Args::options_value_all, collected: filter_map keeps opt.value.as_ref()
\* of the options with the id, where it is Some.
RECURSIVE filter_map_values(_, _)
filter_map_values(options, id) ==
    IF options = << >>
    THEN << >>
    ELSE LET o == Head(options)
             r == filter_map_values(Tail(options), id)
         IN  IF o.id = id /\ is_some(o.value)
             THEN <<unwrap(o.value)>> \o r
             ELSE r

options_value_all(p, id) == filter_map_values(p.options, id)

\* An options_value_first that takes the value of the first option with
\* the id, present or not.
options_value_first_of_first(p, id) ==
    LET m == find(p.options, 1, id, FALSE)
    IN  IF is_some(m) THEN unwrap(m).value ELSE None

\* Args::options_value_first
options_value_first(p, id) ==
    LET m == find(p.options, 1, id, TRUE)
    IN  IF is_some(m) THEN unwrap(m).value ELSE None

\* Args::options_value_last
options_value_last(p, id) ==
    LET m == rfind(p.options, Len(p.options), id, TRUE)
    IN  IF is_some(m) THEN unwrap(m).value ELSE None

(***************************************************************************)
(* parser.rs: parse. The locals of one call are the record                 *)
(*   [pc, iter, args_count, opt, char_iter, parsed]                        *)
(* where iter is the index in args of the item iter.next() returns next,   *)
(* char_iter holds the characters the series iterator has not returned     *)
(* yet, and pc is the loop the call is in: "main" (lines 10-179),          *)
(* "series" (lines 106-172), "rest" (lines 181-196), "done" (line 198).    *)
(***************************************************************************)
\* iter.next() returning Some(v): lines 15-21 (and 54-58, 127-131, 189-193)
iter_next(a, s) ==
    [s EXCEPT !.iter = @ + 1, !.args_count = @ + 1]

\* Lines 15-21: the main loop takes its next token into opt.
take_opt(a, s) == [iter_next(a, s) EXCEPT !.opt = a[s.iter]]

\* A push that skips an option equal to one already collected.
push_option_dedup(s, spec, name, value_required, value) ==
    IF contains(s.parsed.options, Opt(spec.id, name, value_required, value))
    THEN s
    ELSE [s EXCEPT !.parsed.options =
                       Append(@, Opt(spec.id, name, value_required, value))]

\* A push that records the declared name instead of the name as typed.
push_option_declared_name(s, spec, name, value_required, value) ==
    [s EXCEPT !.parsed.options =
                  Append(@, Opt(spec.id, spec.name, value_required, value))]

\* parsed.options.push(Opt {..}); continue
push_option(s, spec, name, value_required, value) ==
    [s EXCEPT !.parsed.options =
                  Append(@, Opt(spec.id, name, value_required, value))]

\* A push without the contains test.
push_unknown_always(s, name) ==
    [s EXCEPT !.parsed.unknown = Append(@, name)]

\* if !parsed.unknown.contains(&name) { parsed.unknown.push(name) }; continue
push_unknown(s, name) ==
    IF ~contains(s.parsed.unknown, name)
    THEN [s EXCEPT !.parsed.unknown = Append(@, name)]
    ELSE s

\* parsed.other.push(opt)
push_other(s, v) == [s EXCEPT !.parsed.other = Append(@, v)]

\* The value an option is recorded with: for the non-empty value types the
\* empty string is no value.
non_empty(spec, value) ==
    IF spec.value_type \in NonEmptyTypes /\ value = Some(<< >>)
    THEN None
    ELSE value

\* An option is recorded while options holds fewer than option_limit.
collect_option(sp, s, spec, name, value_required, value) ==
    IF Len(s.parsed.options) < sp.option_limit
    THEN push_option(s, spec, name, value_required, non_empty(spec, value))
    ELSE s

\* An unknown name is recorded while unknown holds fewer than unknown_limit.
collect_unknown(sp, s, name) ==
    IF Len(s.parsed.unknown) < sp.unknown_limit
    THEN push_unknown(s, name)
    ELSE s

\* A limit test on other that lets one more argument in.
collect_other_one_more(sp, s, v) ==
    IF Len(s.parsed.other) <= sp.other_limit
    THEN push_other(s, v)
    ELSE s

\* An argument is recorded while other holds fewer than other_limit.
collect_other(sp, s, v) ==
    IF Len(s.parsed.other) < sp.other_limit
    THEN push_other(s, v)
    ELSE s

\* All three collections are full: the main loop stops.
limits_saturated(sp, s) ==
    /\ Len(s.parsed.options) >= sp.option_limit
    /\ Len(s.parsed.other) >= sp.other_limit
    /\ Len(s.parsed.unknown) >= sp.unknown_limit

\* A lookahead that never reads the item after the option.
next_value_absent(sp, a, s) == [value |-> None, st |-> s]

\* A lookahead on a copy of iter: the value is read, iter does not move.
next_value_peek(sp, a, s) ==
    IF is_under_limit(sp, s.args_count) /\ s.iter <= Len(a)
    THEN [value |-> Some(a[s.iter]), st |-> s]
    ELSE [value |-> None, st |-> s]

\* The value of a required option that has none in its own token: the next
\* item of iter, if the limit allows and there is one. Gives the value and
\* the locals after the call.
next_value(sp, a, s) ==
    IF is_under_limit(sp, s.args_count)
    THEN IF s.iter <= Len(a)
         THEN [value |-> Some(a[s.iter]), st |-> iter_next(a, s)]
         ELSE [value |-> None, st |-> s]
    ELSE [value |-> None, st |-> s]

\* A resolution that takes the first declared name the typed name is a
\* prefix of, however many there are.
long_opt_match_first(sp, name) ==
    IF is_flag(sp, "PrefixMatchLongOptions")
    THEN LET m == get_long_option_prefix_matches(sp, name)
         IN  IF m = None THEN None ELSE Some(unwrap(m)[1])
    ELSE get_long_option_match(sp, name)

\* Lines 29-42: the declared option a long name resolves to.
long_opt_match(sp, name) ==
    IF is_flag(sp, "PrefixMatchLongOptions")
    THEN LET m == get_long_option_prefix_matches(sp, name)
         IN  IF m = None
             THEN None
             ELSE IF Len(unwrap(m)) = 1 THEN Some(unwrap(m)[1]) ELSE None
    ELSE get_long_option_match(sp, name)

\* A required long option that, with options full, leaves the next token
\* where it is.
long_required_full_leaves_value(sp, a, s, spec, name) ==
    IF Len(s.parsed.options) >= sp.option_limit
    THEN s
    ELSE IF is_long_option_equal_sign(s.opt)
         THEN collect_option(sp, s, spec, name, TRUE,
                             Some(get_long_option_equal_value(s.opt)))
         ELSE LET r == next_value(sp, a, s)
              IN  collect_option(sp, r.st, spec, name, TRUE, r.value)

\* A required long option for which an empty text after '=' is no value.
long_required_empty_absent(sp, a, s, spec, name) ==
    IF is_long_option_equal_sign(s.opt)
    THEN collect_option(sp, s, spec, name, TRUE,
                        IF get_long_option_equal_value(s.opt) = << >>
                        THEN None
                        ELSE Some(get_long_option_equal_value(s.opt)))
    ELSE LET r == next_value(sp, a, s)
         IN  collect_option(sp, r.st, spec, name, TRUE, r.value)

\* Lines 49-64: a long option that requires a value.
long_required(sp, a, s, spec, name) ==
    IF is_long_option_equal_sign(s.opt)
    THEN collect_option(sp, s, spec, name, TRUE,
                     Some(get_long_option_equal_value(s.opt)))
    ELSE LET r == next_value(sp, a, s)
         IN  collect_option(sp, r.st, spec, name, TRUE, r.value)

\* An optional long option that takes the next token when it has no '='.
long_optional_takes_next(sp, a, s, spec, name) ==
    IF is_long_option_equal_sign(s.opt)
    THEN push_option(s, spec, name, FALSE,
                     Some(get_long_option_equal_value(s.opt)))
    ELSE IF s.iter <= Len(a)
         THEN push_option(iter_next(a, s), spec, name, FALSE,
                          Some(a[s.iter]))
         ELSE push_option(s, spec, name, FALSE, None)

\* Lines 66-73: a long option that accepts an optional value.
long_optional(sp, a, s, spec, name) ==
    IF is_long_option_equal_sign(s.opt)
    THEN collect_option(sp, s, spec, name, FALSE,
                     Some(get_long_option_equal_value(s.opt)))
    ELSE collect_option(sp, s, spec, name, FALSE, None)

\* A no-value long option given with '=' that is recorded as unknown under
\* its bare name.
long_none_bare_name(sp, a, s, spec, name) ==
    IF is_long_option_equal_sign(s.opt)
    THEN collect_unknown(sp, s, name)
    ELSE collect_option(sp, s, spec, name, FALSE, None)

\* Lines 75-85: a long option that accepts no value.
long_none(sp, a, s, spec, name) ==
    IF is_long_option_equal_sign(s.opt)
    THEN collect_unknown(sp, s, name \o <<"=">>)
    ELSE collect_option(sp, s, spec, name, FALSE, None)

\* A long-option branch that lets a name it cannot resolve pass unrecorded.
long_option_drops_unresolved(sp, a, s) ==
    LET name == get_long_option_name(s.opt)
        opt_match == IF is_valid_long_option_name(name)
                     THEN long_opt_match(sp, name)
                     ELSE None
        spec == unwrap(opt_match)
    IN  IF is_some(opt_match)
        THEN CASE spec.value_type \in RequiredTypes ->
                    long_required(sp, a, s, spec, name)
               [] spec.value_type \in OptionalTypes ->
                    long_optional(sp, a, s, spec, name)
               [] spec.value_type = "None" ->
                    long_none(sp, a, s, spec, name)
        ELSE s

\* Lines 25-101: the branch of a token with the long-option prefix, after
\* the token s.opt was taken from iter.
long_option(sp, a, s) ==
    LET name == get_long_option_name(s.opt)
        opt_match == IF is_valid_long_option_name(name)
                     THEN long_opt_match(sp, name)
                     ELSE None
        spec == unwrap(opt_match)
    IN  IF is_some(opt_match)
        THEN CASE spec.value_type \in RequiredTypes ->
                    long_required(sp, a, s, spec, name)
               [] spec.value_type \in OptionalTypes ->
                    long_optional(sp, a, s, spec, name)
               [] spec.value_type = "None" ->
                    long_none(sp, a, s, spec, name)
        ELSE collect_unknown(sp, s, name)

\* for c in char_iter.by_ref() { chars.push(c) }: the characters the series
\* iterator has left, and the locals once it has given them all.
by_ref_chars(s) == s.char_iter

by_ref_taken(s) == [s EXCEPT !.char_iter = << >>]

\* A required short option that takes the next token as its value, whatever
\* follows it in its series.
short_required_next_token(sp, a, s, spec, name) ==
    LET r == next_value(sp, a, by_ref_taken(s))
    IN  collect_option(sp, r.st, spec, name, TRUE, r.value)

\* A required short option that, with options full, leaves the next token
\* where it is.
short_required_full_leaves_value(sp, a, s, spec, name) ==
    LET chars == by_ref_chars(s)
        t == by_ref_taken(s)
    IN  IF Len(chars) > 0 \/ Len(s.parsed.options) >= sp.option_limit
        THEN collect_option(sp, t, spec, name, TRUE, Some(chars))
        ELSE LET r == next_value(sp, a, t)
             IN  collect_option(sp, r.st, spec, name, TRUE, r.value)

\* Lines 118-137: a short option that requires a value.
short_required(sp, a, s, spec, name) ==
    LET chars == by_ref_chars(s)
        t == by_ref_taken(s)
    IN  IF Len(chars) > 0
        THEN collect_option(sp, t, spec, name, TRUE, Some(chars))
        ELSE LET r == next_value(sp, a, t)
             IN  collect_option(sp, r.st, spec, name, TRUE, r.value)

\* An optional short option that takes one character as its value and
\* leaves the rest of the series to be scanned.
short_optional_one_char(sp, a, s, spec, name) ==
    IF Len(s.char_iter) > 0
    THEN push_option([s EXCEPT !.char_iter = Tail(@)], spec, name, FALSE,
                     Some(<<Head(s.char_iter)>>))
    ELSE push_option(s, spec, name, FALSE, None)

\* Lines 139-150: a short option that accepts an optional value.
short_optional(sp, a, s, spec, name) ==
    LET chars == by_ref_chars(s)
        t == by_ref_taken(s)
    IN  IF Len(chars) > 0
        THEN collect_option(sp, t, spec, name, FALSE, Some(chars))
        ELSE collect_option(sp, t, spec, name, FALSE, None)

\* A no-value short option that ends the scan of its series.
short_none_ends_series(sp, a, s, spec, name) ==
    push_option(by_ref_taken(s), spec, name, FALSE, None)

\* Lines 152-155: a short option that accepts no value.
short_none(sp, a, s, spec, name) ==
    collect_option(sp, s, spec, name, FALSE, None)

\* Lines 107-171: one turn of the loop over the characters of a series,
\* when char_iter.next() returns a character.
series_char(sp, a, s0) ==
    LET name == <<Head(s0.char_iter)>>
        s == [s0 EXCEPT !.char_iter = Tail(@)]
        opt_match == IF is_valid_short_option_name(name)
                     THEN get_short_option_match(sp, name)
                     ELSE None
        spec == unwrap(opt_match)
    IN  IF is_some(opt_match)
        THEN CASE spec.value_type \in RequiredTypes ->
                    short_required(sp, a, s, spec, name)
               [] spec.value_type \in OptionalTypes ->
                    short_optional(sp, a, s, spec, name)
               [] spec.value_type = "None" ->
                    short_none(sp, a, s, spec, name)
        ELSE collect_unknown(sp, s, name)

\* The if / else-if chain of the three loops: which branch the call takes
\* next from the locals s.
kind(sp, a, s) ==
    CASE s.pc = "main" ->
            IF ~is_under_limit(sp, s.args_count) \/ limits_saturated(sp, s)
            THEN "main_limit"
            ELSE IF s.iter > Len(a) THEN "main_end"
            ELSE IF is_option_terminator(a[s.iter]) THEN "terminator"
            ELSE IF is_long_option_prefix(a[s.iter]) THEN "long"
            ELSE IF is_short_option_prefix(a[s.iter]) THEN "short"
            ELSE IF is_flag(sp, "OptionsEverywhere") THEN "other_everywhere"
            ELSE "other_stop"
      [] s.pc = "series" ->
            IF Len(s.char_iter) = 0 THEN "series_end" ELSE "series_char"
      [] s.pc = "rest" ->
            IF ~is_under_limit(sp, s.args_count) THEN "rest_limit"
            ELSE IF s.iter > Len(a) THEN "rest_end"
            ELSE "rest_next"
      [] s.pc = "done" -> "done"

\* Lines 11-13 and 16: the main loop ends at the limit or at the end of
\* the input.
main_break(s) == [s EXCEPT !.pc = "rest"]

\* A terminator that is taken from iter without ending the main loop.
terminator_continues(a, s) == take_opt(a, s)

\* Lines 23-24: the terminator is taken from iter and ends the main loop.
terminator(a, s) == [take_opt(a, s) EXCEPT !.pc = "rest"]

\* Lines 102-105: a token with the short-option prefix opens its series.
short_option(a, s) ==
    LET t == take_opt(a, s)
    IN  [t EXCEPT !.pc = "series",
                  !.char_iter = get_short_option_series(t.opt)]

\* Line 108: the series is exhausted, back to the main loop.
series_end(s) == [s EXCEPT !.pc = "main"]

\* An OptionsEverywhere branch that ends the main loop as the default does.
other_everywhere_stops(sp, a, s) ==
    LET t == take_opt(a, s) IN [collect_other(sp, t, t.opt) EXCEPT !.pc = "rest"]

\* Lines 173-174
other_everywhere(sp, a, s) ==
    LET t == take_opt(a, s) IN collect_other(sp, t, t.opt)

\* A default branch that records the token and goes on scanning.
other_stop_continues(sp, a, s) ==
    LET t == take_opt(a, s) IN collect_other(sp, t, t.opt)

\* A default branch that ends the main loop without recording the token.
other_stop_drops_token(sp, a, s) == [take_opt(a, s) EXCEPT !.pc = "rest"]

\* Lines 175-177
other_stop(sp, a, s) ==
    LET t == take_opt(a, s) IN [collect_other(sp, t, t.opt) EXCEPT !.pc = "rest"]

\* A second loop that reports the limit exceeded whenever it is reached.
rest_limit_always_reports(a, s) ==
    [s EXCEPT !.parsed.arg_limit_exceeded = TRUE, !.pc = "done"]

\* Lines 182-187
rest_limit(a, s) ==
    IF s.iter <= Len(a)
    THEN [s EXCEPT !.iter = @ + 1,
                   !.parsed.arg_limit_exceeded = TRUE,
                   !.pc = "done"]
    ELSE [s EXCEPT !.pc = "done"]

\* Line 190
rest_end(s) == [s EXCEPT !.pc = "done"]

\* A second loop that drops a further terminator instead of collecting it.
rest_next_skips_terminator(sp, a, s) ==
    IF is_option_terminator(a[s.iter])
    THEN iter_next(a, s)
    ELSE collect_other(sp, iter_next(a, s), a[s.iter])

\* Lines 191-194
rest_next(sp, a, s) == collect_other(sp, iter_next(a, s), a[s.iter])

\* The locals after the branch the call takes next.
step(sp, a, s) ==
    LET k == kind(sp, a, s)
    IN  CASE k = "main_limit" -> main_break(s)
          [] k = "main_end" -> main_break(s)
          [] k = "terminator" -> terminator(a, s)
          [] k = "long" -> long_option(sp, a, take_opt(a, s))
          [] k = "short" -> short_option(a, s)
          [] k = "other_everywhere" -> other_everywhere(sp, a, s)
          [] k = "other_stop" -> other_stop(sp, a, s)
          [] k = "series_end" -> series_end(s)
          [] k = "series_char" -> series_char(sp, a, s)
          [] k = "rest_limit" -> rest_limit(a, s)
          [] k = "rest_end" -> rest_end(s)
          [] k = "rest_next" -> rest_next(sp, a, s)
          [] k = "done" -> s

\* Lines 7-8: the locals when parse starts.
start ==
    [pc |-> "main", iter |-> 1, args_count |-> 0, opt |-> << >>,
     char_iter |-> << >>, parsed |-> Args_new]

\* The locals when the call that is at s returns.
RECURSIVE run(_, _, _)
run(sp, a, s) == IF s.pc = "done" THEN s ELSE run(sp, a, step(sp, a, s))

\* parse(specs, iter): the Args it returns.
parse(sp, a) == run(sp, a, start).parsed

(***************************************************************************)
(* The registries and command lines of the model                           *)
(***************************************************************************)
help == <<"h", "e", "l", "p">>

file == <<"f", "i", "l", "e">>

verbose == <<"v", "e", "r", "b", "o", "s", "e">>

\* OptSpecs::new().option(..)...: the options lib.rs declares in its tests.
Options ==
    << OptSpec("help", <<"h">>, "None"),
       OptSpec("help", help, "None"),
       OptSpec("file", <<"f">>, "Required"),
       OptSpec("file", file, "Required"),
       OptSpec("debug", <<"d">>, "Optional"),
       OptSpec("verbose", verbose, "Optional") >>

\* An option that declares a name also when it is declared already.
option_allows_duplicates(options, id, name, value_type) ==
    IF id = ""
    THEN Panic
    ELSE IF Len(name) = 1 /\ ~is_valid_short_option_name(name)
    THEN Panic
    ELSE IF Len(name) >= 2 /\ ~is_valid_long_option_name(name)
    THEN Panic
    ELSE IF Len(name) = 0
    THEN Panic
    ELSE Append(options, OptSpec(id, name, value_type))

\* OptSpecs::option: the options after the declaration of (id, name,
\* value_type), or Panic when one of its assertions fails.
option(options, id, name, value_type) ==
    IF id = ""
    THEN Panic
    ELSE IF Len(name) = 1 /\ ~is_valid_short_option_name(name)
    THEN Panic
    ELSE IF Len(name) >= 2 /\ ~is_valid_long_option_name(name)
    THEN Panic
    ELSE IF Len(name) = 0
    THEN Panic
    ELSE IF \E i \in 1..Len(options) : options[i].name = name
    THEN Panic
    ELSE Append(options, OptSpec(id, name, value_type))

\* A flag that pushes the flag also when the registry holds it.
flag_pushes_always(sp, f) == [sp EXCEPT !.flags = Append(@, f)]

\* OptSpecs::flag
flag(sp, f) ==
    IF ~contains(sp.flags, f)
    THEN [sp EXCEPT !.flags = Append(@, f)]
    ELSE sp

\* The flag vectors OptSpecs::flag builds.
FlagVecs ==
    { << >>, <<"OptionsEverywhere">>, <<"PrefixMatchLongOptions">>,
      <<"OptionsEverywhere", "PrefixMatchLongOptions">> }

Limits == {SmallLimit, COUNTER_LIMIT}

\* OptSpecs::new with the options, flags and limits given.
OptSpecs(options, flags, arg_limit, option_limit, other_limit, unknown_limit) ==
    [options |-> options, flags |-> flags, arg_limit |-> arg_limit,
     option_limit |-> option_limit, other_limit |-> other_limit,
     unknown_limit |-> unknown_limit]

Registries ==
    { OptSpecs(Options, f, l, COUNTER_LIMIT, COUNTER_LIMIT, COUNTER_LIMIT) :
        f \in FlagVecs, l \in Limits }

\* Tokens every command line of the model may hold: the terminator, a
\* plain word and the empty string.
CommonTokens == { <<"-", "-">>, <<"x">>, << >> }

\* Short-option tokens: -h, -f, -hfx, -xhxhd, -hdxf
ShortTokens ==
    { <<"-", "h">>,
      <<"-", "f">>,
      <<"-", "h", "f", "x">>,
      <<"-", "x", "h", "x", "h", "d">>,
      <<"-", "h", "d", "x", "f">> }

\* Long-option tokens: --file, --file=, --verbose, --verbose=x, --help=, --no
LongTokens ==
    { LONG_OPTION_PREFIX \o file,
      LONG_OPTION_PREFIX \o file \o <<"=">>,
      LONG_OPTION_PREFIX \o verbose,
      LONG_OPTION_PREFIX \o verbose \o <<"=", "x">>,
      LONG_OPTION_PREFIX \o help \o <<"=">>,
      <<"-", "-", "n", "o">> }

\* The command lines of at most MaxLen tokens over a set of tokens.
Lines(tokens) == UNION { [1..n -> tokens] : n \in 0..MaxLen }

\* lib.rs, t_parsed_output_160: --file -- -- --
Scenario160 ==
    << LONG_OPTION_PREFIX \o file, <<"-", "-">>, <<"-", "-">>, <<"-", "-">> >>

CommandLines ==
    Lines(CommonTokens \cup ShortTokens)
        \cup Lines(CommonTokens \cup LongTokens)
        \cup {Scenario160}

(***************************************************************************)
(* Registries and command lines for the resolution of long names           *)
(***************************************************************************)
version == <<"v", "e", "r", "s", "i", "o", "n">>

\* The options of lib.rs, t_parsed_output_070, with an alias and the two
\* value-taking long options of the other tests.
OptionsNames ==
    << OptSpec("help", <<"h">>, "None"),
       OptSpec("help", help, "None"),
       OptSpec("version", version, "None"),
       OptSpec("verbose", verbose, "Optional"),
       OptSpec("file", file, "Required") >>

\* Every flag vector without a limit, and the plain registry with the
\* finite argument limit.
RegistriesNames ==
    { OptSpecs(OptionsNames, f, COUNTER_LIMIT, COUNTER_LIMIT, COUNTER_LIMIT,
               COUNTER_LIMIT) : f \in FlagVecs }
        \cup { OptSpecs(OptionsNames, << >>, SmallLimit, COUNTER_LIMIT,
                        COUNTER_LIMIT, COUNTER_LIMIT) }

\* --ver, --verb, --help=x, --he=, --fi, --no=, -h, and the terminator and
\* a plain word.
NameTokens ==
    { <<"-", "-", "v", "e", "r">>,
      <<"-", "-", "v", "e", "r", "b">>,
      LONG_OPTION_PREFIX \o help \o <<"=", "x">>,
      <<"-", "-", "h", "e", "=">>,
      <<"-", "-", "f", "i">>,
      <<"-", "-", "n", "o", "=">>,
      <<"-", "h">>,
      <<"-", "-">>,
      <<"x">> }

\* The empty string, -, --a, --=, --a=, ---, "- ", and -h.
OddTokens ==
    { << >>,
      <<"-">>,
      <<"-", "-", "a">>,
      <<"-", "-", "=">>,
      <<"-", "-", "a", "=">>,
      <<"-", "-", "-">>,
      <<"-", " ">>,
      <<"-", "h">> }

CommandLinesNames == Lines(NameTokens) \cup Lines(OddTokens)

\* Two options of which one name is the beginning of the other, without
\* a flag and with PrefixMatchLongOptions.
foo == <<"f", "o", "o">>

foobar == <<"f", "o", "o", "b", "a", "r">>

RegistriesPrefix ==
    { OptSpecs(<< OptSpec("foo", foo, "None"),
                  OptSpec("foobar", foobar, "None") >>,
               f, COUNTER_LIMIT, COUNTER_LIMIT, COUNTER_LIMIT, COUNTER_LIMIT) :
        f \in { << >>, <<"PrefixMatchLongOptions">> } }

\* --fo, --foo, --foob and --foobar.
PrefixTokens ==
    { <<"-", "-", "f", "o">>,
      LONG_OPTION_PREFIX \o foo,
      <<"-", "-", "f", "o", "o", "b">>,
      LONG_OPTION_PREFIX \o foobar }

(***************************************************************************)
(* Registries and command lines for the five value types                   *)
(***************************************************************************)
debug == <<"d", "e", "b", "u", "g">>

color == <<"c", "o", "l", "o", "r">>

\* Options of every value type, as lib.rs declares them in
\* t_parsed_output_125, 135, 137 and 190.
OptionsValues ==
    << OptSpec("help", <<"h">>, "None"),
       OptSpec("file", <<"f">>, "Required"),
       OptSpec("file", file, "Required"),
       OptSpec("debug", <<"d">>, "RequiredNonEmpty"),
       OptSpec("debug", debug, "RequiredNonEmpty"),
       OptSpec("verbose", verbose, "OptionalNonEmpty"),
       OptSpec("color", color, "Optional") >>

\* The plain registry, the registry with both flags, and the plain registry
\* with the finite argument limit.
RegistriesValues ==
    { OptSpecs(OptionsValues, << >>, COUNTER_LIMIT, COUNTER_LIMIT,
               COUNTER_LIMIT, COUNTER_LIMIT),
      OptSpecs(OptionsValues, <<"OptionsEverywhere", "PrefixMatchLongOptions">>,
               COUNTER_LIMIT, COUNTER_LIMIT, COUNTER_LIMIT, COUNTER_LIMIT),
      OptSpecs(OptionsValues, << >>, SmallLimit, COUNTER_LIMIT,
               COUNTER_LIMIT, COUNTER_LIMIT) }

\* --file=, --file, --debug=, --debug, -d, -hf, --verbose=, --color=,
\* --verb, the empty string and the terminator.
ValueTokens ==
    { LONG_OPTION_PREFIX \o file \o <<"=">>,
      LONG_OPTION_PREFIX \o file,
      LONG_OPTION_PREFIX \o debug \o <<"=">>,
      LONG_OPTION_PREFIX \o debug,
      <<"-", "d">>,
      <<"-", "h", "f">>,
      LONG_OPTION_PREFIX \o verbose \o <<"=">>,
      LONG_OPTION_PREFIX \o color \o <<"=">>,
      <<"-", "-", "v", "e", "r", "b">>,
      << >>,
      <<"-", "-">> }

CommandLinesValues == Lines(ValueTokens)

(***************************************************************************)
(* Registries and command lines for the collection limits                  *)
(***************************************************************************)
\* OptSpecs::new: nothing declared, every limit at COUNTER_LIMIT.
OptSpecs_new ==
    OptSpecs(<< >>, << >>, COUNTER_LIMIT, COUNTER_LIMIT, COUNTER_LIMIT,
             COUNTER_LIMIT)

\* OptSpecs::limit_options
limit_options(sp, limit) == [sp EXCEPT !.option_limit = limit]

\* OptSpecs::limit_other_args
limit_other_args(sp, limit) == [sp EXCEPT !.other_limit = limit]

\* OptSpecs::limit_unknown_options
limit_unknown_options(sp, limit) == [sp EXCEPT !.unknown_limit = limit]

\* The options of lib.rs, t_parsed_output_220 and 270.
OptionsLimits ==
    << OptSpec("help", <<"h">>, "None"),
       OptSpec("file", <<"f">>, "Required"),
       OptSpec("file", file, "Required") >>

\* The values a collection limit takes: none collected, a few, unbounded.
CollectionLimits == {0, SmallLimit, COUNTER_LIMIT}

\* Registries with and without OptionsEverywhere under every choice of the
\* three collection limits, and the plain one with the finite argument
\* limit.
RegistriesLimits ==
    { limit_unknown_options(
          limit_other_args(
              limit_options([OptSpecs_new EXCEPT !.options = OptionsLimits,
                                                 !.flags = f], n),
              o),
          u) :
        f \in { << >>, <<"OptionsEverywhere">> },
        n \in CollectionLimits, o \in CollectionLimits, u \in CollectionLimits }
      \cup { [OptSpecs_new EXCEPT !.options = OptionsLimits,
                                  !.arg_limit = SmallLimit] }

\* x, -habf, -ab, -f, --file and the terminator.
LimitTokens ==
    { <<"x">>,
      <<"-", "h", "a", "b", "f">>,
      <<"-", "a", "b">>,
      <<"-", "f">>,
      LONG_OPTION_PREFIX \o file,
      <<"-", "-">> }

\* lib.rs, t_parsed_output_270: its registry and its command line
\* bar -habf 123 foo.
Registry270 ==
    limit_unknown_options(
        limit_other_args(
            limit_options([OptSpecs_new EXCEPT
                              !.options = OptionsLimits,
                              !.flags = <<"OptionsEverywhere">>], 1),
            2),
        1)

Scenario270 ==
    << <<"b", "a", "r">>, <<"-", "h", "a", "b", "f">>, <<"1", "2", "3">>,
       <<"f", "o", "o">> >>

(***************************************************************************)
(* lib.rs, t_parsed_output_010                                             *)
(***************************************************************************)
\* OptSpecs::new().option("help", "h", None).option("help", "help", None)
\*     .option("file", "f", Required).option("file", "file", Required)
Registry010 ==
    [OptSpecs_new EXCEPT
        !.options = << OptSpec("help", <<"h">>, "None"),
                       OptSpec("help", help, "None"),
                       OptSpec("file", <<"f">>, "Required"),
                       OptSpec("file", file, "Required") >>]

\* -h --help -f123 -f 456 foo bar
Scenario010 ==
    << <<"-", "h">>,
       LONG_OPTION_PREFIX \o help,
       <<"-", "f", "1", "2", "3">>,
       <<"-", "f">>,
       <<"4", "5", "6">>,
       <<"f", "o", "o">>,
       <<"b", "a", "r">> >>

(***************************************************************************)
(* Registries and command lines of options without a value                 *)
(***************************************************************************)
\* Options that take no value: h, help, version and a.
OptionsNoValue ==
    << OptSpec("help", <<"h">>, "None"),
       OptSpec("help", help, "None"),
       OptSpec("version", version, "None"),
       OptSpec("all", <<"a">>, "None") >>

\* The registry without a flag, the one with OptionsEverywhere, and the
\* one without a flag and with the finite argument limit.
RegistriesNoValue ==
    { OptSpecs(OptionsNoValue, << >>, COUNTER_LIMIT, COUNTER_LIMIT,
               COUNTER_LIMIT, COUNTER_LIMIT),
      OptSpecs(OptionsNoValue, <<"OptionsEverywhere">>, COUNTER_LIMIT,
               COUNTER_LIMIT, COUNTER_LIMIT, COUNTER_LIMIT),
      OptSpecs(OptionsNoValue, << >>, SmallLimit, COUNTER_LIMIT,
               COUNTER_LIMIT, COUNTER_LIMIT) }

\* -h, -xh, -yx, --help, --help=, --no, --a, the terminator and a plain
\* word.
NoValueTokens ==
    { <<"-", "h">>,
      <<"-", "x", "h">>,
      <<"-", "y", "x">>,
      LONG_OPTION_PREFIX \o help,
      LONG_OPTION_PREFIX \o help \o <<"=">>,
      <<"-", "-", "n", "o">>,
      <<"-", "-", "a">>,
      <<"-", "-">>,
      <<"x">> }

\* Tokens at the borders of the lexical classes: the empty string, -,
\* "- x", ---, ---x, --a, "-- ", -a, "- " and -=.
LexTokens ==
    { << >>,
      <<"-">>,
      <<"-", " ", "x">>,
      <<"-", "-", "-">>,
      <<"-", "-", "-", "x">>,
      <<"-", "-", "a">>,
      <<"-", "-", " ">>,
      <<"-", "a">>,
      <<"-", " ">>,
      <<"-", "=">> }

\* The command lines of one or two of these tokens.
LexLines ==
    { <<t>> : t \in LexTokens } \cup { <<t, u>> : t, u \in LexTokens }

(***************************************************************************)
(* The state machine: one call of parse on a command line                  *)
(***************************************************************************)
\* The locals of the call, as one record.
Cur ==
    [pc |-> pc, iter |-> iter, args_count |-> args_count, opt |-> opt,
     char_iter |-> char_iter, parsed |-> parsed]

\* The call moves to the locals n.
Set(n) ==
    /\ pc' = n.pc
    /\ iter' = n.iter
    /\ args_count' = n.args_count
    /\ opt' = n.opt
    /\ char_iter' = n.char_iter
    /\ parsed' = n.parsed
    /\ UNCHANGED <<specs, args>>

Init ==
    /\ \/ specs \in Registries /\ args \in CommandLines
       \/ specs = Registry010 /\ args = Scenario010
    /\ pc = start.pc
    /\ iter = start.iter
    /\ args_count = start.args_count
    /\ opt = start.opt
    /\ char_iter = start.char_iter
    /\ parsed = start.parsed

\* The locals are those of a call that starts.
Started ==
    /\ pc = start.pc
    /\ iter = start.iter
    /\ args_count = start.args_count
    /\ opt = start.opt
    /\ char_iter = start.char_iter
    /\ parsed = start.parsed

\* A call under collection limits.
InitLimits ==
    /\ \/ specs \in RegistriesLimits /\ args \in Lines(LimitTokens)
       \/ specs = Registry270 /\ args = Scenario270
    /\ Started

\* A call on a command line of the value tokens.
InitValues ==
    /\ specs \in RegistriesValues
    /\ args \in CommandLinesValues
    /\ Started

\* A call on a command line of the tokens for options without a value.
InitNoValue ==
    /\ specs \in RegistriesNoValue
    /\ args \in Lines(NoValueTokens) \cup LexLines
    /\ Started

\* A call on a command line of the long-name tokens.
InitNames ==
    /\ \/ specs \in RegistriesNames /\ args \in CommandLinesNames
       \/ specs \in RegistriesPrefix /\ args \in Lines(PrefixTokens)
    /\ Started

MainLimit ==
    /\ kind(specs, args, Cur) = "main_limit"
    /\ Set(main_break(Cur))

MainEnd ==
    /\ kind(specs, args, Cur) = "main_end"
    /\ Set(main_break(Cur))

Terminator ==
    /\ kind(specs, args, Cur) = "terminator"
    /\ Set(terminator(args, Cur))

LongOption ==
    /\ kind(specs, args, Cur) = "long"
    /\ Set(long_option(specs, args, take_opt(args, Cur)))

ShortOption ==
    /\ kind(specs, args, Cur) = "short"
    /\ Set(short_option(args, Cur))

SeriesChar ==
    /\ kind(specs, args, Cur) = "series_char"
    /\ Set(series_char(specs, args, Cur))

SeriesEnd ==
    /\ kind(specs, args, Cur) = "series_end"
    /\ Set(series_end(Cur))

OtherEverywhere ==
    /\ kind(specs, args, Cur) = "other_everywhere"
    /\ Set(other_everywhere(specs, args, Cur))

OtherStop ==
    /\ kind(specs, args, Cur) = "other_stop"
    /\ Set(other_stop(specs, args, Cur))

RestLimit ==
    /\ kind(specs, args, Cur) = "rest_limit"
    /\ Set(rest_limit(args, Cur))

RestEnd ==
    /\ kind(specs, args, Cur) = "rest_end"
    /\ Set(rest_end(Cur))

RestNext ==
    /\ kind(specs, args, Cur) = "rest_next"
    /\ Set(rest_next(specs, args, Cur))

Next ==
    \/ MainLimit
    \/ MainEnd
    \/ Terminator
    \/ LongOption
    \/ ShortOption
    \/ SeriesChar
    \/ SeriesEnd
    \/ OtherEverywhere
    \/ OtherStop
    \/ RestLimit
    \/ RestEnd
    \/ RestNext

Spec == Init /\ [][Next]_vars

\* The parser on the same registries and command lines; the properties of
\* the order of the output and of the accounting of tokens are stated of it.
SpecOrder == Init /\ [][Next]_vars

SpecNames == InitNames /\ [][Next]_vars

\* The parser on the registries and command lines of SpecNames; the
\* absence of runtime failures is stated of it.
SpecRobust == InitNames /\ [][Next]_vars

SpecValues == InitValues /\ [][Next]_vars

\* The parser on the registries and command lines of SpecValues; the
\* properties of the queries on the returned Args are stated of it.
SpecQueries == InitValues /\ [][Next]_vars

SpecLimits == InitLimits /\ [][Next]_vars

SpecNoValue == InitNoValue /\ [][Next]_vars

(***************************************************************************)
(* The state machine of the builder: OptSpecs::new() followed by calls of  *)
(* option, flag and the limit setters. specs is the registry under         *)
(* construction, pc is "build" until a declaration panics ("aborted").     *)
(***************************************************************************)
\* The identifiers, names and value types the declarations draw from: the
\* names h, =, -, " ", "", hi, -x, a= and "a b".
BuildIds == {"help", ""}

BuildNames ==
    { <<"h">>, <<"=">>, <<"-">>, <<" ">>, << >>, <<"h", "i">>, <<"-", "x">>,
      <<"a", "=">>, <<"a", " ", "b">> }

BuildValueTypes == {"None", "Required"}

BuildFlags == {"OptionsEverywhere", "PrefixMatchLongOptions"}

InitBuild ==
    /\ specs = OptSpecs_new
    /\ args = << >>
    /\ pc = "build"
    /\ iter = start.iter
    /\ args_count = start.args_count
    /\ opt = start.opt
    /\ char_iter = start.char_iter
    /\ parsed = start.parsed

\* specs = specs.option(id, name, value_type)
DeclareOption ==
    /\ pc = "build"
    /\ Len(specs.options) < MaxDeclared
    /\ \E id \in BuildIds, name \in BuildNames, vt \in BuildValueTypes :
          LET r == option(specs.options, id, name, vt)
          IN  IF r = Panic
              THEN pc' = "aborted" /\ specs' = specs
              ELSE pc' = pc /\ specs' = [specs EXCEPT !.options = r]
    /\ UNCHANGED <<args, iter, args_count, opt, char_iter, parsed>>

\* specs = specs.flag(f)
SetFlag ==
    /\ pc = "build"
    /\ \E f \in BuildFlags : specs' = flag(specs, f)
    /\ UNCHANGED <<args, pc, iter, args_count, opt, char_iter, parsed>>

\* specs = specs.limit_options(l)
LimitOptions ==
    /\ pc = "build"
    /\ \E l \in CollectionLimits : specs' = limit_options(specs, l)
    /\ UNCHANGED <<args, pc, iter, args_count, opt, char_iter, parsed>>

\* specs = specs.limit_other_args(l)
LimitOtherArgs ==
    /\ pc = "build"
    /\ \E l \in CollectionLimits : specs' = limit_other_args(specs, l)
    /\ UNCHANGED <<args, pc, iter, args_count, opt, char_iter, parsed>>

\* specs = specs.limit_unknown_options(l)
LimitUnknownOptions ==
    /\ pc = "build"
    /\ \E l \in CollectionLimits : specs' = limit_unknown_options(specs, l)
    /\ UNCHANGED <<args, pc, iter, args_count, opt, char_iter, parsed>>

NextBuild ==
    \/ DeclareOption
    \/ SetFlag
    \/ LimitOptions
    \/ LimitOtherArgs
    \/ LimitUnknownOptions

SpecBuild == InitBuild /\ [][NextBuild]_vars

(***************************************************************************)
(* Properties                                                              *)
(***************************************************************************)
\* The argument limit is the unbounded default.
Unbounded ==
    /\ specs.arg_limit = COUNTER_LIMIT
    /\ specs.option_limit = COUNTER_LIMIT
    /\ specs.other_limit = COUNTER_LIMIT
    /\ specs.unknown_limit = COUNTER_LIMIT

Everywhere == is_flag(specs, "OptionsEverywhere")

\* The token is neither the terminator, a long-option token nor a
\* short-option token.
LooksPositional(t) ==
    /\ ~is_option_terminator(t)
    /\ ~is_long_option_prefix(t)
    /\ ~is_short_option_prefix(t)

\* The main loop is about to take args[iter] as its next top-level token.
AtToken == pc = "main" /\ iter <= Len(args) /\ Unbounded

\* The locals after the branch the call takes next.
Stepped == step(specs, args, Cur)

\* The Args the call returns, seen from the current state.
Returned == run(specs, args, Cur).parsed

\* The tokens from index i to the end of the command line.
From(i) == SubSeq(args, i, Len(args))

\* C1: without OptionsEverywhere and with the limit unbounded, when the
\* main loop takes a token that is neither the terminator nor a long- or
\* short-option token, it is the first such token (other is still empty),
\* and the returned other is that token followed by every later token in
\* input order, while options and unknown stay as they are at that point:
\* no later token adds to them, whatever it looks like.
C1_FirstPositionalEndsScanning ==
    (AtToken /\ ~Everywhere /\ LooksPositional(args[iter])) =>
        /\ parsed.other = << >>
        /\ Returned.other = From(iter)
        /\ Returned.options = parsed.options
        /\ Returned.unknown = parsed.unknown

\* A call without the flag has returned; its main loop ended at a plain
\* word that a short-option token followed, and both are in other.
C1_Witness ==
    /\ pc = "done" /\ Unbounded /\ ~Everywhere
    /\ Len(parsed.other) >= 2
    /\ LooksPositional(parsed.other[1])
    /\ opt = parsed.other[1]
    /\ is_short_option_prefix(parsed.other[2])

\* The indices of the tokens the main loop takes as top-level tokens that
\* are neither terminator nor option tokens, on the way from s.
RECURSIVE positional_taken(_, _, _)
positional_taken(sp, a, s) ==
    IF s.pc \in {"rest", "done"}
    THEN {}
    ELSE (IF /\ s.pc = "main" /\ s.iter <= Len(a)
             /\ is_under_limit(sp, s.args_count)
             /\ LooksPositional(a[s.iter])
          THEN {s.iter} ELSE {})
         \cup positional_taken(sp, a, step(sp, a, s))

\* The command line a without the tokens at the indices in P.
RECURSIVE Without(_, _)
Without(a, P) ==
    IF Len(a) = 0
    THEN << >>
    ELSE Without(SubSeq(a, 1, Len(a) - 1), P)
            \o (IF Len(a) \in P THEN << >> ELSE <<a[Len(a)]>>)

\* C2: with OptionsEverywhere and the limit unbounded, a positional token
\* taken by the main loop is appended to other and the main loop goes on
\* with the next token; and the returned options and unknown are those of
\* the command line without the positional tokens before the terminator.
C2_OptionsEverywhereContinues ==
    /\ (AtToken /\ Everywhere /\ LooksPositional(args[iter])) =>
          /\ Stepped.parsed = [parsed EXCEPT !.other = Append(@, args[iter])]
          /\ Stepped.pc = "main"
          /\ Stepped.iter = iter + 1
    /\ (pc = "done" /\ Unbounded /\ Everywhere) =>
          LET P == positional_taken(specs, args, start)
              g == parse(specs, Without(args, P))
          IN  /\ parsed.options = g.options
              /\ parsed.unknown = g.unknown

\* A call with the flag has returned; its command line starts with a plain
\* word, and options and unknown both hold names found after it.
C2_Witness ==
    /\ pc = "done" /\ Unbounded /\ Everywhere
    /\ Len(args) >= 2 /\ LooksPositional(args[1])
    /\ parsed.other = <<args[1]>>
    /\ Len(parsed.options) >= 1
    /\ Len(parsed.unknown) >= 1

\* C3: with the limit unbounded and under every flag setting, when the
\* main loop takes a token that is exactly "--", the returned other is
\* other as it is at that point followed by every token after the "--" in
\* input order, and options and unknown stay as they are: the "--" itself
\* is recorded nowhere and no later token is classified.
C3_TerminatorStopsScanning ==
    (AtToken /\ args[iter] = <<"-", "-">>) =>
        /\ Returned.other = parsed.other \o From(iter + 1)
        /\ Returned.options = parsed.options
        /\ Returned.unknown = parsed.unknown

\* A call has returned whose main loop ended at a leading "--" that a
\* short-option token and a second "--" followed: both are in other.
C3_Witness ==
    /\ pc = "done" /\ Unbounded
    /\ Len(args) = 3
    /\ args[1] = <<"-", "-">>
    /\ is_short_option_prefix(args[2])
    /\ args[3] = <<"-", "-">>
    /\ opt = args[1]
    /\ parsed.other = <<args[2], args[3]>>

\* The declared options with the value type vt.
DeclaredWith(vt) ==
    { specs.options[i] : i \in { j \in 1..Len(specs.options) :
                                    specs.options[j].value_type = vt } }

\* The main loop is about to take the token --name of the long option e.
AtLongBare(e) ==
    AtToken /\ Len(e.name) >= 2 /\ args[iter] = LONG_OPTION_PREFIX \o e.name

\* The main loop is about to take a token --name=V of the long option e.
AtLongInline(e) ==
    /\ AtToken /\ Len(e.name) >= 2
    /\ starts_with(args[iter], LONG_OPTION_PREFIX \o e.name \o <<"=">>)

\* The V of the token --name=V: what follows the first '=' after the name.
InlineValue(e) == SubSeq(args[iter], Len(e.name) + 4, Len(args[iter]))

\* The series loop is about to take the character that names the short
\* option e.
AtShort(e) ==
    pc = "series" /\ Len(char_iter) > 0 /\ e.name = <<Head(char_iter)>>

\* The locals when the main loop is next at its top: after the branch
\* taken next and, inside a series, after the turn that finds it exhausted.
AtTopAgain ==
    IF Stepped.pc = "series" /\ Len(Stepped.char_iter) = 0
    THEN step(specs, args, Stepped)
    ELSE Stepped

\* C4: with the limit unbounded, a recognised option that requires a value
\* is emitted with value_required = TRUE and with the value --name=V gives
\* (V possibly empty) or the non-empty rest of its series; otherwise with
\* the next token of the input; and with no value when no token remains.
C4_RequiredValueOrder ==
    LET st == Stepped
    IN
    \A e \in DeclaredWith("Required") :
        /\ AtLongInline(e) =>
              st.parsed.options =
                  Append(parsed.options,
                         Opt(e.id, e.name, TRUE, Some(InlineValue(e))))
        /\ AtLongBare(e) =>
              st.parsed.options =
                  Append(parsed.options,
                         Opt(e.id, e.name, TRUE,
                             IF iter + 1 <= Len(args)
                             THEN Some(args[iter + 1]) ELSE None))
        /\ (AtShort(e) /\ Unbounded) =>
              st.parsed.options =
                  Append(parsed.options,
                         Opt(e.id, e.name, TRUE,
                             IF Len(Tail(char_iter)) > 0
                             THEN Some(Tail(char_iter))
                             ELSE IF iter <= Len(args)
                                  THEN Some(args[iter]) ELSE None))

\* A call has returned on --file= --file: the first occurrence has the
\* empty inline value, the second, with no token left, has none.
C4_Witness ==
    /\ pc = "done" /\ Unbounded
    /\ args = << LONG_OPTION_PREFIX \o file \o <<"=">>,
                 LONG_OPTION_PREFIX \o file >>
    /\ parsed.options = << Opt("file", file, TRUE, Some(<< >>)),
                           Opt("file", file, TRUE, None) >>

\* The index of the token a required option without a value of its own
\* takes as its value: the one after --name, the one after the series.
ValueIndex == IF pc = "main" THEN iter + 1 ELSE iter

\* A required option is about to take the next token of the input.
TakesNextToken(e) ==
    /\ \/ AtLongBare(e)
       \/ AtShort(e) /\ Unbounded /\ Len(Tail(char_iter)) = 0
    /\ ValueIndex <= Len(args)

\* C5: with the limit unbounded, the token a required option takes as its
\* value is taken whatever it is, adds nothing to other or unknown and no
\* second entry to options, and the main loop goes on with the token after
\* it. On --file -- -- -- the call returns file with the value "--" and
\* other = ["--"].
C5_ValueTokenConsumedOnce ==
    /\ \A e \in DeclaredWith("Required") :
          TakesNextToken(e) =>
              /\ Stepped.parsed =
                     [parsed EXCEPT !.options =
                         Append(@, Opt(e.id, e.name, TRUE,
                                       Some(args[ValueIndex])))]
              /\ AtTopAgain.pc = "main"
              /\ AtTopAgain.iter = ValueIndex + 1
              /\ AtTopAgain.parsed = Stepped.parsed
    /\ (pc = "done" /\ Unbounded /\ args = Scenario160) =>
          parsed = [Args_new EXCEPT
                       !.options = << Opt("file", file, TRUE,
                                          Some(<<"-", "-">>)) >>,
                       !.other = << <<"-", "-">> >>]

\* The call on --file -- -- -- has returned.
C5_Witness ==
    /\ pc = "done" /\ Unbounded /\ args = Scenario160
    /\ Len(parsed.options) = 1
    /\ parsed.other = << <<"-", "-">> >>

\* C6: a recognised option that accepts an optional value has the value
\* its own token gives (--name=V, or the non-empty rest of its series) and
\* none otherwise; it changes nothing else, and the main loop goes on with
\* the token right after the option's own token.
C6_OptionalNeverTakesNextToken ==
    \A e \in DeclaredWith("Optional") :
        /\ AtLongInline(e) =>
              /\ Stepped.parsed =
                     [parsed EXCEPT !.options =
                         Append(@, Opt(e.id, e.name, FALSE,
                                       Some(InlineValue(e))))]
              /\ Stepped.pc = "main" /\ Stepped.iter = iter + 1
        /\ AtLongBare(e) =>
              /\ Stepped.parsed =
                     [parsed EXCEPT !.options =
                         Append(@, Opt(e.id, e.name, FALSE, None))]
              /\ Stepped.pc = "main" /\ Stepped.iter = iter + 1
        /\ AtShort(e) =>
              /\ Stepped.parsed =
                     [parsed EXCEPT !.options =
                         Append(@, Opt(e.id, e.name, FALSE,
                                       IF Len(Tail(char_iter)) > 0
                                       THEN Some(Tail(char_iter))
                                       ELSE None))]
              /\ AtTopAgain.pc = "main" /\ AtTopAgain.iter = iter
              /\ AtTopAgain.parsed = Stepped.parsed

\* A call has returned on --verbose --file=: the bare --verbose has no
\* value and the token after it was classified as the option it is.
C6_Witness ==
    /\ pc = "done" /\ Unbounded
    /\ args = << LONG_OPTION_PREFIX \o verbose,
                 LONG_OPTION_PREFIX \o file \o <<"=">> >>
    /\ parsed.options = << Opt("verbose", verbose, FALSE, None),
                           Opt("file", file, TRUE, Some(<< >>)) >>

\* Every declared option.
Declared == { specs.options[i] : i \in 1..Len(specs.options) }

\* The series loop is about to take a character no declared option has as
\* its name.
AtUndeclaredChar ==
    /\ pc = "series" /\ Len(char_iter) > 0
    /\ \A e \in Declared : e.name # <<Head(char_iter)>>

\* C7: in a series the next character is the first one not yet examined.
\* If it names a declared no-value short option, exactly one entry for it
\* is appended to options; if it names no declared short option, it is
\* appended to unknown as a one-character string unless already there. In
\* both cases nothing else changes and the scan goes on with the character
\* after it in the same token.
C7_ClusterScansEveryCharacter ==
    /\ \A e \in DeclaredWith("None") :
          AtShort(e) =>
              /\ Stepped.parsed =
                     [parsed EXCEPT !.options =
                         Append(@, Opt(e.id, e.name, FALSE, None))]
              /\ Stepped.pc = "series"
              /\ Stepped.char_iter = Tail(char_iter)
              /\ Stepped.iter = iter
    /\ AtUndeclaredChar =>
          /\ Stepped.parsed =
                 [parsed EXCEPT !.unknown =
                     IF contains(@, <<Head(char_iter)>>)
                     THEN @ ELSE Append(@, <<Head(char_iter)>>)]
          /\ Stepped.pc = "series"
          /\ Stepped.char_iter = Tail(char_iter)
          /\ Stepped.iter = iter

\* The series of -xhxhd has been scanned up to its last character: x is
\* in unknown once and h was emitted twice.
C7_Witness ==
    /\ pc = "series"
    /\ opt = <<"-", "x", "h", "x", "h", "d">>
    /\ char_iter = <<"d">>
    /\ parsed.unknown = << <<"x">> >>
    /\ parsed.options = << Opt("help", <<"h">>, FALSE, None),
                           Opt("help", <<"h">>, FALSE, None) >>

NoDuplicates(v) == \A i, j \in 1..Len(v) : v[i] = v[j] => i = j

\* The name a long-option token gives: what stands between its "--" and
\* its first '=' (or its end).
TypedName(tok) ==
    LET body == SubSeq(tok, 3, Len(tok))
        k == CHOOSE n \in 0..Len(body) :
                /\ \A j \in 1..n : body[j] # "="
                /\ n = Len(body) \/ body[n + 1] = "="
    IN  SubSeq(body, 1, k)

\* The main loop is about to take a long-option token whose name no
\* declared name starts with.
AtUnknownLong ==
    /\ AtToken /\ is_long_option_prefix(args[iter])
    /\ \A e \in Declared : ~starts_with(e.name, TypedName(args[iter]))

\* C9: at every point of a call unknown holds no string twice; a branch
\* leaves unknown as it is or appends one string that was not in it, taken
\* from the token at hand; and an unknown long name, or the name= of a
\* no-value long option given with '=', is appended at its first occurrence
\* and adds nothing later.
C9_UnknownUniqueInFirstOccurrenceOrder ==
    LET st == Stepped
    IN
    /\ NoDuplicates(parsed.unknown)
    /\ \/ st.parsed.unknown = parsed.unknown
       \/ \E n \in { <<c>> : c \in { char_iter[i] : i \in 1..Len(char_iter) } }
                   \cup { TypedName(args[i]) : i \in 1..Len(args) }
                   \cup { TypedName(args[i]) \o <<"=">> : i \in 1..Len(args) } :
             /\ ~contains(parsed.unknown, n)
             /\ st.parsed.unknown = Append(parsed.unknown, n)
             /\ \/ pc = "series" /\ n = <<Head(char_iter)>>
                \/ pc = "main" /\ n = TypedName(args[iter])
                \/ pc = "main" /\ n = TypedName(args[iter]) \o <<"=">>
    /\ AtUnknownLong =>
          st.parsed =
              [parsed EXCEPT !.unknown =
                  IF contains(@, TypedName(args[iter]))
                  THEN @ ELSE Append(@, TypedName(args[iter]))]
    /\ \A e \in DeclaredWith("None") :
          AtLongInline(e) =>
              st.parsed =
                  [parsed EXCEPT !.unknown =
                      IF contains(@, e.name \o <<"=">>)
                      THEN @ ELSE Append(@, e.name \o <<"=">>)]

\* The call on --help= --no --help= has returned with unknown = help=, no.
C9_Witness ==
    /\ pc = "done"
    /\ args = << LONG_OPTION_PREFIX \o help \o <<"=">>,
                 <<"-", "-", "n", "o">>,
                 LONG_OPTION_PREFIX \o help \o <<"=">> >>
    /\ parsed.unknown = << help \o <<"=">>, <<"n", "o">> >>

\* The main loop is about to take a token, whatever the limit is.
TakesToken ==
    pc = "main" /\ iter <= Len(args) /\ is_under_limit(specs, args_count)

\* The call is at an occurrence of the declared option e: at its character
\* in a series, at its token --name, or at --name=V when e takes a value.
AtOccurrence(e) ==
    \/ AtShort(e)
    \/ /\ TakesToken /\ Len(e.name) >= 2
       /\ \/ args[iter] = LONG_OPTION_PREFIX \o e.name
          \/ /\ e.value_type # "None"
             /\ starts_with(args[iter], LONG_OPTION_PREFIX \o e.name \o <<"=">>)

\* C10: a branch at an occurrence of a declared option appends exactly one
\* entry, with its id and name, at the end of options, also when an equal
\* entry is there already; no other branch changes options. A branch that
\* takes a positional token (in the main loop, or any token in the second
\* loop) appends it at the end of other, duplicates included; no other
\* branch changes other. The cursor never moves back, so both sequences are
\* in input order. -xhxhd x x gives options h, h, d and other x, x.
C10_OptionsAndOtherInInputOrder ==
    LET st == Stepped
    IN
    /\ st.iter >= iter
    /\ \A e \in Declared :
          AtOccurrence(e) =>
              /\ Len(st.parsed.options) = Len(parsed.options) + 1
              /\ SubSeq(st.parsed.options, 1, Len(parsed.options))
                    = parsed.options
              /\ st.parsed.options[Len(parsed.options) + 1].id = e.id
              /\ st.parsed.options[Len(parsed.options) + 1].name = e.name
    /\ (\A e \in Declared : ~AtOccurrence(e)) =>
          st.parsed.options = parsed.options
    /\ IF \/ TakesToken /\ LooksPositional(args[iter])
          \/ pc = "rest" /\ iter <= Len(args)
                /\ is_under_limit(specs, args_count)
       THEN st.parsed.other = Append(parsed.other, args[iter])
       ELSE st.parsed.other = parsed.other
    /\ (pc = "done" /\ Unbounded /\ ~Everywhere
            /\ args = << <<"-", "x", "h", "x", "h", "d">>, <<"x">>, <<"x">> >>) =>
          /\ parsed.options = << Opt("help", <<"h">>, FALSE, None),
                                 Opt("help", <<"h">>, FALSE, None),
                                 Opt("debug", <<"d">>, FALSE, None) >>
          /\ parsed.other = << <<"x">>, <<"x">> >>

\* The call on -xhxhd x x has returned: h is in options twice, x in other
\* twice.
C10_Witness ==
    /\ pc = "done" /\ Unbounded /\ ~Everywhere
    /\ args = << <<"-", "x", "h", "x", "h", "d">>, <<"x">>, <<"x">> >>
    /\ Len(parsed.options) = 3
    /\ parsed.options[1] = parsed.options[2]
    /\ parsed.other = << <<"x">>, <<"x">> >>

(***************************************************************************)
(* Properties of the resolution of long names, under SpecNames             *)
(***************************************************************************)
PrefixMatch == is_flag(specs, "PrefixMatchLongOptions")

\* The declared long options a typed name stands for: those with that very
\* name, or with PrefixMatchLongOptions those whose name starts with it.
Candidates(n) ==
    { e \in Declared :
        /\ Len(e.name) >= 2
        /\ IF PrefixMatch THEN starts_with(e.name, n) ELSE e.name = n }

\* The main loop is about to take a long-option token whose typed name
\* stands for exactly the declared option e.
AtLongOf(e) ==
    /\ AtToken /\ is_long_option_prefix(args[iter])
    /\ Len(TypedName(args[iter])) >= 2
    /\ Candidates(TypedName(args[iter])) = {e}

\* The token holds an '=' after its "--".
HasEqual(tok) == \E i \in 3..Len(tok) : tok[i] = "="

\* v with n appended unless v holds it.
AppendedOnce(v, n) == IF contains(v, n) THEN v ELSE Append(v, n)

\* C11: a long-option token with an '=' whose typed name resolves to an
\* option declared without a value emits no option; the typed name with
\* '=' appended, without what follows the '=', is recorded in unknown
\* unless it is there already, and the bare name is not recorded.
C11_NoValueOptionWithEqualIsUnknown ==
    \A e \in DeclaredWith("None") :
        (AtLongOf(e) /\ HasEqual(args[iter])) =>
            LET n == TypedName(args[iter])
            IN  /\ Stepped.parsed =
                       [parsed EXCEPT !.unknown =
                           AppendedOnce(@, n \o <<"=">>)]
                /\ contains(Stepped.parsed.unknown, n \o <<"=">>)
                /\ contains(Stepped.parsed.unknown, n)
                      <=> contains(parsed.unknown, n)

\* With PrefixMatchLongOptions the call on --help=x --he= --no= has
\* returned: no option, and unknown = help=, he=, no.
C11_Witness ==
    /\ pc = "done" /\ Unbounded /\ PrefixMatch
    /\ args = << LONG_OPTION_PREFIX \o help \o <<"=", "x">>,
                 <<"-", "-", "h", "e", "=">>,
                 <<"-", "-", "n", "o", "=">> >>
    /\ parsed.options = << >>
    /\ parsed.unknown = << help \o <<"=">>, <<"h", "e", "=">>, <<"n", "o">> >>

\* The main loop is about to take a long-option token.
AtLong == AtToken /\ is_long_option_prefix(args[iter])

\* The lookup of lib.rs, get_long_option_prefix_match, gives the declared
\* option whose name starts with the typed name when there is exactly one,
\* and nothing when there is none or several.
PrefixLookupAgrees ==
    AtLong =>
        LET n == TypedName(args[iter])
            c == { e \in Declared : starts_with(e.name, n) }
        IN  get_long_option_prefix_match(specs, n) =
                IF Len(n) >= 2 /\ Cardinality(c) = 1
                THEN Some(CHOOSE e \in c : TRUE)
                ELSE None

\* C12: a typed long name resolves to a declared option iff exactly one
\* declared long name is equal to it, without PrefixMatchLongOptions, or
\* starts with it, with the flag. Resolved, the token appends one option
\* with that option's id (or, for a no-value option given with '=', is the
\* case of C11); with no or several such names it emits no option and the
\* typed name is recorded in unknown unless it is there already. The
\* prefix lookup of lib.rs finds an option in just those cases.
C12_LongNameResolution ==
    /\ PrefixLookupAgrees
    /\ AtLong =>
          LET n == TypedName(args[iter])
              c == Candidates(n)
          IN  IF Len(n) >= 2 /\ Cardinality(c) = 1
              THEN \A e \in c :
                      (e.value_type = "None" /\ HasEqual(args[iter]))
                      \/ /\ Len(Stepped.parsed.options)
                               = Len(parsed.options) + 1
                         /\ Stepped.parsed.options[Len(parsed.options) + 1].id
                               = e.id
                         /\ Stepped.parsed.unknown = parsed.unknown
              ELSE Stepped.parsed =
                       [parsed EXCEPT !.unknown = AppendedOnce(@, n)]

\* With PrefixMatchLongOptions the call on --ver --verb has returned: ver,
\* a prefix of two declared names, is unknown, and verb resolved to verbose.
C12_Witness ==
    /\ pc = "done" /\ Unbounded /\ PrefixMatch
    /\ args = << <<"-", "-", "v", "e", "r">>, <<"-", "-", "v", "e", "r", "b">> >>
    /\ parsed.unknown = << <<"v", "e", "r">> >>
    /\ Len(parsed.options) = 1
    /\ parsed.options[1].id = "verbose"

(***************************************************************************)
(* Properties of the emitted options and their values, under SpecValues    *)
(***************************************************************************)
\* The entry o is the one an occurrence of the declared option e, typed as
\* n, emits: the id of e, the name as typed, and value_required just for
\* the two value types that require a value.
EmittedFor(o, e, n) ==
    /\ o.id = e.id
    /\ o.name = n
    /\ o.value_required = (e.value_type \in {"Required", "RequiredNonEmpty"})

\* C13: whenever a branch adds to options it adds one entry at the end, and
\* that entry has the id of the declared option the typed name resolves to,
\* the name as typed (the character of the series, or the text after "--"
\* up to '=', also when it is a shortened prefix of the declared name) and
\* value_required = TRUE iff that option's value type is Required or
\* RequiredNonEmpty.
C13_EmittedOptionFields ==
    Len(Stepped.parsed.options) # Len(parsed.options) =>
        /\ Len(Stepped.parsed.options) = Len(parsed.options) + 1
        /\ LET o == Stepped.parsed.options[Len(parsed.options) + 1]
           IN  \/ /\ pc = "series"
                  /\ \E e \in Declared :
                        /\ e.name = <<Head(char_iter)>>
                        /\ EmittedFor(o, e, <<Head(char_iter)>>)
               \/ /\ pc = "main"
                  /\ \E e \in Declared :
                        /\ Candidates(TypedName(args[iter])) = {e}
                        /\ EmittedFor(o, e, TypedName(args[iter]))

\* With PrefixMatchLongOptions the call on -d "" --verb has returned: the
\* alias d of debug requires a value, and verbose has the name verb.
C13_Witness ==
    /\ pc = "done" /\ Unbounded /\ PrefixMatch
    /\ args = << <<"-", "d">>, << >>, <<"-", "-", "v", "e", "r", "b">> >>
    /\ parsed.options =
          << Opt("debug", <<"d">>, TRUE, None),
             Opt("verbose", <<"v", "e", "r", "b">>, FALSE, None) >>

\* What follows the first '=' of a long-option token.
AfterEqual(tok) ==
    LET k == CHOOSE i \in 3..Len(tok) :
                tok[i] = "=" /\ \A j \in 3..(i - 1) : tok[j] # "="
    IN  SubSeq(tok, k + 1, Len(tok))

\* The value an option of the declared option e is recorded with when the
\* command line gives it the string v: v itself, also when empty, for
\* Required and Optional; nothing for an empty v under the non-empty types.
GivenValue(e, v) ==
    IF v = << >> /\ e.value_type \in {"RequiredNonEmpty", "OptionalNonEmpty"}
    THEN None
    ELSE Some(v)

\* The value types that take a value.
ValueTaking ==
    { e \in Declared : e.value_type # "None" }

\* C14: with the limits unbounded, an option that takes a value and is
\* given one explicitly (--name=V; or, for an option that requires a value
\* and has none in its own token, the next token V) is emitted once with
\* the value V, also when V is the empty string, under Required and
\* Optional; under RequiredNonEmpty and OptionalNonEmpty an empty V is
\* recorded as no value, the option is still emitted, and a next token
\* taken as the value is consumed all the same.
C14_EmptyStringValues ==
    \A e \in ValueTaking :
        LET required == e.value_type \in {"Required", "RequiredNonEmpty"}
        IN  /\ (AtLongOf(e) /\ HasEqual(args[iter])) =>
                  /\ Stepped.parsed =
                        [parsed EXCEPT !.options =
                            Append(@, Opt(e.id, TypedName(args[iter]), required,
                                          GivenValue(e, AfterEqual(args[iter]))))]
                  /\ Stepped.iter = iter + 1
            /\ (AtLongOf(e) /\ ~HasEqual(args[iter]) /\ required
                    /\ iter + 1 <= Len(args)) =>
                  /\ Stepped.parsed =
                        [parsed EXCEPT !.options =
                            Append(@, Opt(e.id, TypedName(args[iter]), TRUE,
                                          GivenValue(e, args[iter + 1])))]
                  /\ Stepped.iter = iter + 2
            /\ (AtShort(e) /\ Unbounded /\ required
                    /\ Tail(char_iter) = << >> /\ iter <= Len(args)) =>
                  /\ Stepped.parsed =
                        [parsed EXCEPT !.options =
                            Append(@, Opt(e.id, e.name, TRUE,
                                          GivenValue(e, args[iter])))]
                  /\ Stepped.iter = iter + 1

\* The call on --file= --debug "" has returned: file has the empty string
\* as its value, debug has none, and the empty token was consumed.
C14_Witness ==
    /\ pc = "done" /\ Unbounded /\ ~PrefixMatch
    /\ args = << LONG_OPTION_PREFIX \o file \o <<"=">>,
                 LONG_OPTION_PREFIX \o debug,
                 << >> >>
    /\ parsed = [Args_new EXCEPT
                    !.options = << Opt("file", file, TRUE, Some(<< >>)),
                                   Opt("debug", debug, TRUE, None) >>]

\* The declared option e is about to be given the empty string as its
\* value: --name=, or for an option that requires a value, an empty next
\* token.
GivenEmpty(e) ==
    \/ /\ AtLongOf(e)
       /\ IF HasEqual(args[iter])
          THEN AfterEqual(args[iter]) = << >>
          ELSE iter + 1 <= Len(args) /\ args[iter + 1] = << >>
    \/ /\ AtShort(e) /\ Unbounded /\ Tail(char_iter) = << >>
       /\ iter <= Len(args) /\ args[iter] = << >>

\* The declared option e is about to find no token left for its value.
GivenNothing(e) ==
    \/ AtLongOf(e) /\ ~HasEqual(args[iter]) /\ iter + 1 > Len(args)
    \/ AtShort(e) /\ Unbounded /\ Tail(char_iter) = << >> /\ iter > Len(args)

\* The indices of the entries of options that require a value and have
\* none.
MissingAt(p) ==
    { i \in 1..Len(p.options) :
        p.options[i].value_required /\ p.options[i].value = << >> }

\* C15: at every point of a call and in its result, required_value_missing
\* gives the entries of options with value_required = TRUE and no value,
\* each once and in the order of options. A Required option given the
\* empty string adds nothing to the report; a RequiredNonEmpty option given
\* the empty string, and an option that requires a value and finds no
\* token left, add their entry at its end.
C15_RequiredValueMissing ==
    LET m == required_value_missing(parsed)
        after == required_value_missing(Stepped.parsed)
    IN  /\ Len(m) = Cardinality(MissingAt(parsed))
        /\ \A i \in 1..Len(m) :
              \E k \in MissingAt(parsed) :
                 /\ parsed.options[k] = m[i]
                 /\ Cardinality({ j \in MissingAt(parsed) : j < k }) = i - 1
        /\ \A e \in DeclaredWith("Required") :
              GivenEmpty(e) =>
                 /\ Len(Stepped.parsed.options) = Len(parsed.options) + 1
                 /\ after = m
        /\ \A e \in DeclaredWith("RequiredNonEmpty") :
              GivenEmpty(e) =>
                 /\ Len(after) = Len(m) + 1
                 /\ SubSeq(after, 1, Len(m)) = m
                 /\ after[Len(after)].id = e.id
        /\ \A e \in DeclaredWith("Required") \cup DeclaredWith("RequiredNonEmpty") :
              GivenNothing(e) =>
                 /\ Len(after) = Len(m) + 1
                 /\ SubSeq(after, 1, Len(m)) = m
                 /\ after[Len(after)].id = e.id

\* The call on --file= --debug= --file has returned: three options, and
\* the report holds debug and the second file.
C15_Witness ==
    /\ pc = "done" /\ Unbounded /\ ~PrefixMatch
    /\ args = << LONG_OPTION_PREFIX \o file \o <<"=">>,
                 LONG_OPTION_PREFIX \o debug \o <<"=">>,
                 LONG_OPTION_PREFIX \o file >>
    /\ Len(parsed.options) = 3
    /\ required_value_missing(parsed) =
          << Opt("debug", debug, TRUE, None), Opt("file", file, TRUE, None) >>

(***************************************************************************)
(* Properties of the collection limits, under SpecLimits                   *)
(***************************************************************************)
\* C16: at every point of a call and in its result, options holds at most
\* option_limit entries, other at most other_limit and unknown at most
\* unknown_limit, so a limit of 0 leaves its sequence empty; and a registry
\* made by OptSpecs::new has all three limits at COUNTER_LIMIT.
C16_CollectionsWithinLimits ==
    /\ Len(parsed.options) <= specs.option_limit
    /\ Len(parsed.other) <= specs.other_limit
    /\ Len(parsed.unknown) <= specs.unknown_limit
    /\ specs.option_limit = 0 => parsed.options = << >>
    /\ specs.other_limit = 0 => parsed.other = << >>
    /\ specs.unknown_limit = 0 => parsed.unknown = << >>
    /\ OptSpecs_new.option_limit = COUNTER_LIMIT
    /\ OptSpecs_new.other_limit = COUNTER_LIMIT
    /\ OptSpecs_new.unknown_limit = COUNTER_LIMIT

\* A call has returned on x x x with other_limit = SmallLimit and
\* option_limit = 0: other is full and the last x was dropped.
C16_Witness ==
    /\ pc = "done"
    /\ specs.other_limit = SmallLimit /\ specs.option_limit = 0
    /\ args = << <<"x">>, <<"x">>, <<"x">> >>
    /\ Len(parsed.other) = SmallLimit
    /\ iter > Len(args)

\* options is full, other or unknown is not, and the argument limit is
\* unbounded.
OptionsFull ==
    /\ Len(parsed.options) >= specs.option_limit
    /\ ~limits_saturated(specs, Cur)
    /\ specs.arg_limit = COUNTER_LIMIT

\* C17: with options full, an option that requires a value and has none in
\* its own token is not recorded, and it takes the next token all the same:
\* the branch changes none of options, other and unknown, and the cursor is
\* then past the token after the option. bar -habf 123 foo with the limits
\* 1, 2, 1 and OptionsEverywhere gives options = [h], other = [bar, foo],
\* unknown = [a].
C17_ValueConsumedBeyondOptionLimit ==
    /\ \A e \in DeclaredWith("Required") :
          /\ (OptionsFull /\ pc = "main" /\ iter + 1 <= Len(args)
                  /\ args[iter] = LONG_OPTION_PREFIX \o e.name) =>
                /\ Stepped.parsed = parsed
                /\ Stepped.pc = "main"
                /\ Stepped.iter = iter + 2
          /\ (OptionsFull /\ AtShort(e) /\ Tail(char_iter) = << >>
                  /\ iter <= Len(args)) =>
                /\ Stepped.parsed = parsed
                /\ AtTopAgain.pc = "main"
                /\ AtTopAgain.iter = iter + 1
                /\ AtTopAgain.parsed = parsed
    /\ (pc = "done" /\ specs = Registry270 /\ args = Scenario270) =>
          parsed = [Args_new EXCEPT
                       !.options = << Opt("help", <<"h">>, FALSE, None) >>,
                       !.other = << <<"b", "a", "r">>, <<"f", "o", "o">> >>,
                       !.unknown = << <<"a">> >>]

\* The call of t_parsed_output_270 has returned: 123 is nowhere.
C17_Witness ==
    /\ pc = "done" /\ specs = Registry270 /\ args = Scenario270
    /\ Len(parsed.options) = 1
    /\ ~contains(parsed.other, <<"1", "2", "3">>)
    /\ ~contains(parsed.unknown, <<"1", "2", "3">>)

(***************************************************************************)
(* Properties of whole calls, under Spec                                   *)
(***************************************************************************)
\* C18, as amended: with (help, h), (help, help) declared without a value
\* and (file, f), (file, file) with a required value, and no flag, the call
\* on -h --help -f123 -f 456 foo bar returns
\* options = [{help,h,false,-}, {help,help,false,-}, {file,f,true,"123"},
\* {file,f,true,"456"}], other = [foo, bar] and unknown = []: the fourth
\* option was typed -f, so its name is f.
C18_ScenarioA ==
    (pc = "done" /\ specs = Registry010 /\ args = Scenario010) =>
        /\ parsed.options =
              << Opt("help", <<"h">>, FALSE, None),
                 Opt("help", help, FALSE, None),
                 Opt("file", <<"f">>, TRUE, Some(<<"1", "2", "3">>)),
                 Opt("file", <<"f">>, TRUE, Some(<<"4", "5", "6">>)) >>
        /\ parsed.other = << <<"f", "o", "o">>, <<"b", "a", "r">> >>
        /\ parsed.unknown = << >>

\* The call of t_parsed_output_010 has returned.
C18_Witness ==
    /\ pc = "done" /\ specs = Registry010 /\ args = Scenario010
    /\ Len(parsed.options) = 4
    /\ Len(parsed.other) = 2

\* C18, as stated: the same call returns the fourth option as
\* {file,file,true,"456"}, with the name file.
C18_ScenarioA_AsStated ==
    (pc = "done" /\ specs = Registry010 /\ args = Scenario010) =>
        /\ parsed.options =
              << Opt("help", <<"h">>, FALSE, None),
                 Opt("help", help, FALSE, None),
                 Opt("file", <<"f">>, TRUE, Some(<<"1", "2", "3">>)),
                 Opt("file", file, TRUE, Some(<<"4", "5", "6">>)) >>
        /\ parsed.other = << <<"f", "o", "o">>, <<"b", "a", "r">> >>
        /\ parsed.unknown = << >>

(***************************************************************************)
(* Termination and the accounting of the tokens                            *)
(***************************************************************************)
\* The locals when the call has left the series it is in, if any.
RECURSIVE series_done(_, _, _)
series_done(sp, a, s) ==
    IF s.pc = "series" THEN series_done(sp, a, step(sp, a, s)) ELSE s

\* The locals when the call is through with the token it takes next.
AfterToken == series_done(specs, args, Stepped)

\* One of the two loops is about to take args[iter] as a token of its own.
TakesOwnToken ==
    /\ iter <= Len(args)
    /\ kind(specs, args, Cur)
          \in {"terminator", "long", "short", "other_everywhere",
               "other_stop", "rest_next"}

\* The token at hand gives options at least one entry, after being the
\* locals when the call is through with it.
NameRole(after) == Len(after.parsed.options) > Len(parsed.options)

\* The token at hand is appended to other.
OtherRole(after) == after.parsed.other = Append(parsed.other, args[iter])

\* The token at hand gives unknown an entry, or gives nothing because
\* unknown holds what it names already.
UnknownRole(after) ==
    \/ after.parsed.unknown # parsed.unknown
    \/ /\ after.parsed = parsed
       /\ pc = "main"
       /\ \/ /\ is_long_option_prefix(args[iter])
             /\ \/ contains(parsed.unknown, TypedName(args[iter]))
                \/ contains(parsed.unknown,
                            TypedName(args[iter]) \o <<"=">>)
          \/ /\ ~is_long_option_prefix(args[iter])
             /\ is_short_option_prefix(args[iter])
             /\ \A j \in 2..Len(args[iter]) :
                   contains(parsed.unknown, <<args[iter][j]>>)

\* The places of the output the token at hand is accounted for in.
Roles(after) ==
    { r \in {"name", "other", "unknown"} :
        \/ r = "name" /\ NameRole(after)
        \/ r = "other" /\ OtherRole(after)
        \/ r = "unknown" /\ UnknownRole(after) }

\* The token at hand has taken the token after it as the value of the
\* option it appended last, and as nothing else.
NextTokenIsValue(after) ==
    /\ iter + 1 <= Len(args)
    /\ NameRole(after)
    /\ after.parsed.options[Len(after.parsed.options)].value
          = Some(args[iter + 1])
    /\ after.parsed.other = parsed.other

\* What is left to do: the tokens not yet taken, the characters of the
\* series not yet taken, and the loops not yet left.
RECURSIVE Remaining(_)
Remaining(i) ==
    IF i > Len(args) THEN 0 ELSE Len(args[i]) + 3 + Remaining(i + 1)

Measure(s) ==
    Remaining(s.iter)
        + CASE s.pc = "series" -> Len(s.char_iter) + 3
            [] s.pc = "main" -> 2
            [] s.pc = "rest" -> 1
            [] s.pc = "done" -> 0

\* Every branch brings the call nearer to its return.
Terminates == pc # "done" => Measure(Stepped) < Measure(Cur)

\* C19, as amended: for every registry and command line the call
\* terminates; and with every limit unbounded, it returns past the last
\* token, and every token is either taken as the value of the option the
\* token before it appended last, or taken as a token of its own and then
\* accounted for in at least one of: the name of a new options entry, a new
\* other entry, an unknown entry. The one exception is the terminator the
\* main loop takes, which leaves the output as it is. A series can be
\* accounted for in options and in unknown at once.
C19_TokensAccountedFor ==
    /\ Terminates
    /\ (pc = "done" /\ Unbounded) => iter = Len(args) + 1
    /\ (TakesOwnToken /\ Unbounded) =>
          LET after == AfterToken
          IN  /\ after.pc \in {"main", "rest"}
              /\ after.iter \in {iter + 1, iter + 2}
              /\ after.iter = iter + 2 => NextTokenIsValue(after)
              /\ IF pc = "main" /\ is_option_terminator(args[iter])
                 THEN after.parsed = parsed /\ after.pc = "rest"
                 ELSE Roles(after) # {}

\* The call on -xhxhd -- x has returned past the last token: the series is
\* in options three times and in unknown once, the terminator is nowhere
\* and the x after it is in other.
C19_Witness ==
    /\ pc = "done" /\ Unbounded /\ iter = 4
    /\ args = << <<"-", "x", "h", "x", "h", "d">>, <<"-", "-">>, <<"x">> >>
    /\ Len(parsed.options) = 3
    /\ parsed.unknown = << <<"x">> >>
    /\ parsed.other = << <<"x">> >>

\* The index of the first literal -- of the command line, 0 without one.
FirstTerminator ==
    IF \E j \in 1..Len(args) : is_option_terminator(args[j])
    THEN CHOOSE j \in 1..Len(args) :
            /\ is_option_terminator(args[j])
            /\ \A k \in 1..(j - 1) : ~is_option_terminator(args[k])
    ELSE 0

\* C19, as stated: for every registry and command line the call terminates
\* and returns past the last token, and every token is accounted for in
\* exactly one of a consumed value, the name of an options entry, an other
\* entry or an unknown entry, except the first literal -- of the command
\* line.
C19_TokensAccountedFor_AsStated ==
    /\ Terminates
    /\ pc = "done" => iter = Len(args) + 1
    /\ TakesOwnToken =>
          LET after == AfterToken
          IN  /\ after.iter \in {iter + 1, iter + 2}
              /\ after.iter = iter + 2 => NextTokenIsValue(after)
              /\ IF iter = FirstTerminator
                 THEN after.parsed = parsed
                 ELSE Cardinality(Roles(after)) = 1

(***************************************************************************)
(* No runtime failure, under SpecNames                                     *)
(***************************************************************************)
\* Every declaration of the registry passed the assertions of option.
Built(sp) ==
    \A i \in 1..Len(sp.options) :
        option(SubSeq(sp.options, 1, i - 1), sp.options[i].id,
               sp.options[i].name, sp.options[i].value_type)
            = SubSeq(sp.options, 1, i)

\* The main loop is about to take the token tok, with the limits unbounded.
AtTok(tok) == pc = "main" /\ TakesOwnToken /\ Unbounded /\ args[iter] = tok

\* The token at hand adds the name n to unknown, or finds it there, and
\* nothing to options or other.
FoundUnknown(n) ==
    /\ Stepped.parsed.unknown =
          IF contains(parsed.unknown, n)
          THEN parsed.unknown ELSE Append(parsed.unknown, n)
    /\ Stepped.parsed.options = parsed.options
    /\ Stepped.parsed.other = parsed.other

\* The slice chars[2..] that is_long_option_equal_sign takes of the token
\* without its prefix is in range, so the call does not panic.
SliceInRange(tok) == Len(get_long_option(tok)) >= 2

\* C20: for every registry that option has built and every command line,
\* the tokens "", -, --a, --=, --a=, --- and "- " included, every branch
\* brings the call nearer to its return and no helper panics: a token the
\* main loop takes as a long option is one get_long_option accepts, and a
\* name that passes is_valid_long_option_name comes from a token
\* is_long_option_equal_sign accepts. "", -, --- and "- " go to other; --a
\* and --a= give unknown the name a and --= the empty name.
C20_NoRuntimeFailure ==
    /\ Built(specs)
    /\ Terminates
    /\ Stepped.pc \in {"main", "series", "rest", "done"}
    /\ (pc = "main" /\ kind(specs, args, Cur) = "long") =>
          /\ get_long_option(args[iter]) # Panic
          /\ is_valid_long_option_name(get_long_option_name(args[iter])) =>
                SliceInRange(args[iter])
    /\ \A tok \in { << >>, <<"-">>, <<"-", "-", "-">>, <<"-", " ">> } :
          AtTok(tok) =>
              /\ Stepped.parsed = [parsed EXCEPT !.other = Append(@, tok)]
              /\ Stepped.iter = iter + 1
    /\ AtTok(<<"-", "-", "a">>) => FoundUnknown(<<"a">>)
    /\ AtTok(<<"-", "-", "a", "=">>) => FoundUnknown(<<"a">>)
    /\ AtTok(<<"-", "-", "=">>) => FoundUnknown(<< >>)

\* The call on --= --a= "- " has returned with the names "" and a in
\* unknown and "- " in other.
C20_Witness ==
    /\ pc = "done" /\ Unbounded /\ Built(specs)
    /\ args = << <<"-", "-", "=">>, <<"-", "-", "a", "=">>, <<"-", " ">> >>
    /\ parsed.options = << >>
    /\ parsed.unknown = << << >>, <<"a">> >>
    /\ parsed.other = << <<"-", " ">> >>

(***************************************************************************)
(* Properties of the builder, under SpecBuild                              *)
(***************************************************************************)
\* The names the registry under construction holds.
DeclaredNames == { specs.options[i].name : i \in 1..Len(specs.options) }

\* The rule of a name that can be declared: one character that is neither
\* a space nor '-', or two or more that do not start with '-' and hold
\* neither a space nor '='.
NameRule(name) ==
    \/ Len(name) = 1 /\ name # <<" ">> /\ name # <<"-">>
    \/ /\ Len(name) >= 2
       /\ name[1] # "-"
       /\ \A j \in 1..Len(name) : name[j] # " " /\ name[j] # "="

\* What a declaration does to the registry under construction: it aborts
\* when the identifier is empty, the name is empty or against the rule, or
\* the name is declared already, and appends one OptSpec otherwise.
DeclarationRule ==
    \A id \in BuildIds, name \in BuildNames, vt \in BuildValueTypes :
        IF \/ id = ""
           \/ name = << >>
           \/ ~NameRule(name)
           \/ name \in DeclaredNames
        THEN option(specs.options, id, name, vt) = Panic
        ELSE option(specs.options, id, name, vt)
                = Append(specs.options,
                         [id |-> id, name |-> name, value_type |-> vt])

\* The declared names are pairwise distinct.
NamesDistinct ==
    \A i, j \in 1..Len(specs.options) :
        specs.options[i].name = specs.options[j].name => i = j

\* C21, as amended: option aborts when the identifier is empty, the name
\* is empty, the name is invalid or the name is declared already, and
\* appends exactly one OptSpec otherwise. After declarations that did not
\* abort the names are pairwise distinct, no name holds a space, no name of
\* two or more characters holds '=' or starts with '-', and no name of one
\* character is '-'; the one-character name '=' can be declared.
C21_DeclareContract ==
    /\ DeclarationRule
    /\ NamesDistinct
    /\ \A n \in DeclaredNames :
          /\ \A j \in 1..Len(n) : n[j] # " "
          /\ Len(n) >= 2 => \A j \in 1..Len(n) : n[j] # "="
          /\ Len(n) = 1 => n # <<"-">>
          /\ Len(n) >= 2 => n[1] # "-"

\* Two declarations went through, = and hi, and a third of hi would abort.
C21_Witness ==
    /\ pc = "build"
    /\ Len(specs.options) = 2
    /\ specs.options[1].name = <<"=">>
    /\ specs.options[2].name = <<"h", "i">>
    /\ option(specs.options, "help", <<"h", "i">>, "None") = Panic

\* C21, as stated: the same, and after declarations that did not abort no
\* name holds a space or '='.
C21_DeclareContract_AsStated ==
    /\ DeclarationRule
    /\ NamesDistinct
    /\ \A n \in DeclaredNames :
          /\ \A j \in 1..Len(n) : n[j] # " " /\ n[j] # "="
          /\ Len(n) = 1 => n # <<"-">>
          /\ Len(n) >= 2 => n[1] # "-"

\* Command lines on which the flags make a difference: x -h, and
\* --hi x -=.
FlagLines ==
    { << <<"x">>, <<"-", "h">> >>,
      << <<"-", "-", "h", "i">>, <<"x">>, <<"-", "=">> >> }

\* C22: after any sequence of flag calls the flags of the registry hold no
\* flag twice; flag(f) sets f, a second flag(f) leaves the registry as the
\* first left it, flag(f) on a registry that holds f leaves it unchanged,
\* and parse returns the same after two calls as after one.
C22_FlagIdempotent ==
    /\ NoDuplicates(specs.flags)
    /\ \A f \in BuildFlags :
          /\ is_flag(flag(specs, f), f)
          /\ flag(flag(specs, f), f) = flag(specs, f)
          /\ is_flag(specs, f) => flag(specs, f) = specs
          /\ \A a \in FlagLines :
                parse(flag(flag(specs, f), f), a) = parse(flag(specs, f), a)

\* Both flags are set, h is declared, and setting either again changes
\* nothing.
C22_Witness ==
    /\ pc = "build"
    /\ specs.flags = <<"PrefixMatchLongOptions", "OptionsEverywhere">>
    /\ Len(specs.options) = 1 /\ specs.options[1].name = <<"h">>
    /\ flag(specs, "OptionsEverywhere") = specs
    /\ flag(specs, "PrefixMatchLongOptions") = specs

(***************************************************************************)
(* Properties of the queries on a result, under SpecValues                 *)
(***************************************************************************)
\* The identifiers the queries are asked for: the declared ones and one
\* that is not declared.
QueryIds == {"help", "file", "debug", "verbose", "color", "not-at-all"}

\* The indices of the collected options with the identifier id, and those
\* of them that have a value.
WithId(id) == { i \in 1..Len(parsed.options) : parsed.options[i].id = id }

WithValue(id) == { i \in WithId(id) : parsed.options[i].value # None }

\* The k-th smallest element of a set of indices.
Kth(S, k) == CHOOSE i \in S : Cardinality({ j \in S : j <= i }) = k

\* C23: for every identifier, options_all is the options with it in their
\* order; options_first and options_last are its first and last element,
\* None when it is empty; option_exists tells whether it is non-empty;
\* options_value_all is the present values of these options in their order,
\* the empty string included; options_value_first and options_value_last
\* are its first and last element, None when it is empty.
C23_QueriesAgree ==
    \A id \in QueryIds :
        LET all == options_all(parsed, id)
            values == options_value_all(parsed, id)
        IN  /\ Len(all) = Cardinality(WithId(id))
            /\ \A k \in 1..Len(all) : all[k] = parsed.options[Kth(WithId(id), k)]
            /\ options_first(parsed, id)
                  = IF all = << >> THEN None ELSE Some(all[1])
            /\ options_last(parsed, id)
                  = IF all = << >> THEN None ELSE Some(all[Len(all)])
            /\ option_exists(parsed, id) <=> all # << >>
            /\ Len(values) = Cardinality(WithValue(id))
            /\ \A k \in 1..Len(values) :
                  Some(values[k]) = parsed.options[Kth(WithValue(id), k)].value
            /\ options_value_first(parsed, id)
                  = IF values = << >> THEN None ELSE Some(values[1])
            /\ options_value_last(parsed, id)
                  = IF values = << >> THEN None ELSE Some(values[Len(values)])

\* The call on --debug= --debug --file= has returned: debug is there
\* without a value and then with the value --file=, which the value
\* queries return.
C23_Witness ==
    /\ pc = "done"
    /\ Len(parsed.options) = 2
    /\ options_first(parsed, "debug") = Some(Opt("debug", debug, TRUE, None))
    /\ options_value_first(parsed, "debug")
          = Some(LONG_OPTION_PREFIX \o file \o <<"=">>)
    /\ options_value_all(parsed, "debug")
          = << LONG_OPTION_PREFIX \o file \o <<"=">> >>
    /\ ~option_exists(parsed, "file")

(***************************************************************************)
(* The entries of unknown, under SpecNames                                 *)
(***************************************************************************)
\* The branch taken next appends an entry to unknown.
AppendsUnknown == Len(Stepped.parsed.unknown) = Len(parsed.unknown) + 1

\* The entry the branch taken next appends to unknown.
NewUnknown == Stepped.parsed.unknown[Len(Stepped.parsed.unknown)]

\* C24: an entry of unknown that comes from a short-option token is a
\* string of one character, and an entry that comes from a long-option
\* token is a string of more than one character.
C24_UnknownEntryLengths ==
    /\ (pc = "series" /\ AppendsUnknown) => Len(NewUnknown) = 1
    /\ (pc = "main" /\ kind(specs, args, Cur) = "long" /\ AppendsUnknown) =>
          Len(NewUnknown) > 1

(***************************************************************************)
(* Options without a value and no positional token, under SpecNoValue      *)
(***************************************************************************)
\* Only options without a value are declared, no flag is set and every
\* limit is unbounded.
PlainNoValue ==
    /\ specs.flags = << >>
    /\ Unbounded
    /\ \A e \in Declared : e.value_type = "None"

\* What a long-option or short-option token names that is not declared:
\* the typed long name, the declared long name with the '=' given to it,
\* or the characters of the series.
Undeclared(tok) ==
    IF is_long_option_prefix(tok)
    THEN IF \E e \in Declared : Len(e.name) >= 2 /\ e.name = TypedName(tok)
         THEN IF HasEqual(tok) THEN { TypedName(tok) \o <<"=">> } ELSE { }
         ELSE { TypedName(tok) }
    ELSE { <<tok[j]>> : j \in { k \in 2..Len(tok) :
                                  \A e \in Declared : e.name # <<tok[k]>> } }

\* C25, as amended: with no flag set, unbounded limits, only options
\* without a value declared and a command line of long-option and
\* short-option tokens only (no positional token and no terminator), the
\* call returns other empty and unknown holding exactly what the tokens
\* name that is not declared.
C25_NoValueRoundTrip ==
    (/\ pc = "done"
     /\ PlainNoValue
     /\ \A i \in 1..Len(args) :
           is_long_option_prefix(args[i]) \/ is_short_option_prefix(args[i])) =>
        /\ parsed.other = << >>
        /\ { parsed.unknown[i] : i \in 1..Len(parsed.unknown) }
              = UNION { Undeclared(args[i]) : i \in 1..Len(args) }

\* The call on -xh --no --help= has returned x, no and help= in unknown and
\* nothing in other.
C25_Witness ==
    /\ pc = "done" /\ PlainNoValue
    /\ args = << <<"-", "x", "h">>, <<"-", "-", "n", "o">>,
                 LONG_OPTION_PREFIX \o help \o <<"=">> >>
    /\ parsed.other = << >>
    /\ parsed.unknown = << <<"x">>, <<"n", "o">>, help \o <<"=">> >>
    /\ Len(parsed.options) = 1

\* C25, as stated: the same for every command line without a
\* positional-looking token, the terminator not excluded.
C25_NoValueRoundTrip_AsStated ==
    (/\ pc = "done"
     /\ PlainNoValue
     /\ \A i \in 1..Len(args) : ~LooksPositional(args[i])) =>
        /\ parsed.other = << >>
        /\ \A i \in 1..Len(args) :
              ~is_option_terminator(args[i]) =>
                 \A n \in Undeclared(args[i]) : contains(parsed.unknown, n)

(***************************************************************************)
(* The report of the argument limit, under SpecLimits                      *)
(***************************************************************************)
\* C26: arg_limit_exceeded is set only when the call returns, and in the
\* result it is TRUE exactly when the argument limit was reached with at
\* least one token of the command line not yet taken; a result in which it
\* is FALSE comes from a call that took every token.
C26_LimitExceededReported ==
    /\ parsed.arg_limit_exceeded => pc = "done"
    /\ pc = "done" =>
          /\ parsed.arg_limit_exceeded <=>
                (~is_under_limit(specs, args_count) /\ args_count < Len(args))
          /\ ~parsed.arg_limit_exceeded => args_count = Len(args)

\* A call under the finite argument limit has returned with the limit
\* reported: it took two of three tokens.
C26_Witness ==
    /\ pc = "done"
    /\ specs.arg_limit = SmallLimit
    /\ Len(args) = 3 /\ args_count = 2
    /\ parsed.arg_limit_exceeded

(***************************************************************************)
(* The lexical classes of a token, under SpecNoValue                       *)
(***************************************************************************)
\* The three tests on a token, stated on its characters.
IsTerminator(tok) == tok = <<"-", "-">>

IsLongToken(tok) ==
    Len(tok) >= 3 /\ tok[1] = "-" /\ tok[2] = "-" /\ tok[3] # "-"

IsShortToken(tok) ==
    Len(tok) >= 2 /\ tok[1] = "-" /\ tok[2] # "-" /\ tok[2] # " "

\* The branch the main loop takes for the token at hand.
BranchTaken == kind(specs, args, Cur)

OtherFrom(k) ==
    /\ parsed.other = SubSeq(args, k, iter - 1)
    /\ \/ LooksPositional(args[k])
       \/ k > 1 /\ is_option_terminator(args[k - 1])

\* C28: without OptionsEverywhere and with the limits unbounded, other is
\* at every point of the call empty or one contiguous run of tokens that
\* starts at a positional token or right after the terminator and ends at
\* the last token taken; in the result it is empty or runs to the end of
\* the command line, later -- tokens included.
C28_OtherIsSuffix ==
    (~Everywhere /\ Unbounded) =>
        /\ \/ parsed.other = << >>
           \/ \E k \in 1..Len(args) : OtherFrom(k)
        /\ (pc = "done" /\ parsed.other # << >>) =>
              \E k \in 1..Len(args) : OtherFrom(k) /\ parsed.other = From(k)

\* The call on x -- -f has returned: other is the whole command line from
\* the first positional token on, the later -- and -f included.
C28_Witness ==
    /\ pc = "done" /\ ~Everywhere /\ Unbounded
    /\ args = << <<"x">>, <<"-", "-">>, <<"-", "f">> >>
    /\ parsed.other = args
    /\ parsed.options = << >>

(***************************************************************************)
(* Limits only truncate, under SpecLimits                                  *)
(***************************************************************************)
\* The registry with its three collection limits back at the default.
Unlimited(sp) ==
    [sp EXCEPT !.option_limit = COUNTER_LIMIT,
               !.other_limit = COUNTER_LIMIT,
               !.unknown_limit = COUNTER_LIMIT]

\* The first n elements of v, all of them when v is no longer than n.
FirstN(v, n) == SubSeq(v, 1, IF Len(v) < n THEN Len(v) ELSE n)

\* The result p cut to the collection limits of the registry sp.
Cut(p, sp) ==
    [p EXCEPT !.options = FirstN(@, sp.option_limit),
              !.other = FirstN(@, sp.other_limit),
              !.unknown = FirstN(@, sp.unknown_limit)]

\* C29: the result of a call is the result of the same call with the
\* three collection limits unbounded, cut to the first option_limit
\* entries of options, the first other_limit entries of other and the first
\* unknown_limit entries of unknown; the values of the options kept are
\* the same, so the same tokens were consumed as values.
C29_LimitsOnlyTruncate ==
    pc = "done" => parsed = Cut(parse(Unlimited(specs), args), specs)

\* The call of t_parsed_output_270 has returned one option of two, the
\* two positional tokens and one unknown option of two.
C29_Witness ==
    /\ pc = "done"
    /\ specs = Registry270 /\ args = Scenario270
    /\ Len(parsed.options) = 1 /\ Len(parsed.other) = 2
    /\ Len(parsed.unknown) = 1
    /\ Len(parse(Unlimited(specs), args).options) = 2
    /\ Len(parse(Unlimited(specs), args).unknown) = 2

====
